---- MODULE Spec2Model ----
(***************************************************************************)
(* Blob storage abstraction of src/lib/blobStorage.ts: BlobPath and the    *)
(* in-memory backend InMemoryBlobStorage.                                  *)
(*                                                                         *)
(* JavaScript strings are sequences of UTF-16 code units (integers).       *)
(* `undefined` / an omitted optional argument is the empty sequence <<>>,  *)
(* a present optional value v is the one-element sequence <<v>>.           *)
(* A StringMap is a plain object literal {}: a function whose DOMAIN is    *)
(* the set of its own keys, plus what it inherits from Object.prototype.   *)
(***************************************************************************)
EXTENDS Integers, Sequences, FiniteSets, TLC

VARIABLES
  containers,   \* InMemoryBlobStorage.containers: own keys -> InMemoryContainer
  objectFn,     \* properties the backend has assigned on the Object function
  last,         \* the last completed call: operation, arguments, outcome
  service,      \* the storage service behind AzureBlobStorage: its containers
  lastCloud,    \* the last completed AzureBlobStorage call
  tasks,        \* calls in flight: their promise callbacks not yet run
  url,          \* AzureBlobStorage.url, <<>> until the backend is constructed
  github,       \* FakeGitHub: users, currentUser, repositories
  exitCode      \* process.exitCode, <<>> while undefined

vars == <<containers, objectFn, last, service, lastCloud, tasks, url, github,
         exitCode>>

----------------------------------------------------------------------------
(* Strings                                                                 *)

\* "/" the separator of BlobPath (UTF-16 code unit)
Slash == 47

\* ASCII letters used by the inputs
StrA == <<97>>
StrX == <<120>>
StrUpperA == <<65>>
StrConstructor == <<99, 111, 110, 115, 116, 114, 117, 99, 116, 111, 114>>

Min(a, b) == IF a < b THEN a ELSE b
Max(a, b) == IF a < b THEN b ELSE a

\* String.prototype.toLowerCase on one code unit (ASCII and Latin-1 letters)
LowerUnit(u) ==
  IF u \in 65..90 THEN u + 32
  ELSE IF u \in 192..222 /\ u # 215 THEN u + 32
  ELSE u

\* String.prototype.toLowerCase
ToLowerCase(s) == [i \in 1..Len(s) |-> LowerUnit(s[i])]

\* IndexOf as lastIndexOf would compute it: the index of the last occurrence
IndexOf_LastOccurrence(s, u) ==
  IF \E i \in 1..Len(s) : s[i] = u
  THEN (CHOOSE i \in 1..Len(s) : s[i] = u /\ \A j \in (i + 1)..Len(s) : s[j] # u) - 1
  ELSE -1

\* String.prototype.indexOf(unit): 0-based index of the first occurrence, or -1
IndexOf(s, u) ==
  IF \E i \in 1..Len(s) : s[i] = u
  THEN (CHOOSE i \in 1..Len(s) : s[i] = u /\ \A j \in 1..(i - 1) : s[j] # u) - 1
  ELSE -1

\* String.prototype.substring(start, end): arguments clamped to 0..length and
\* swapped when start > end
Substring(s, start, end) ==
  LET a == Max(0, Min(start, Len(s)))
      b == Max(0, Min(end, Len(s)))
  IN SubSeq(s, Min(a, b) + 1, Max(a, b))

\* String.prototype.substring(start)
SubstringFrom(s, start) == Substring(s, start, Len(s))

----------------------------------------------------------------------------
(* Buffer: UTF-8 encoding and decoding                                     *)

IsHighSurrogate(u) == u \in 55296..56319
IsLowSurrogate(u) == u \in 56320..57343

\* UTF-8 bytes of one code point
EncodeCodePoint(cp) ==
  IF cp < 128 THEN <<cp>>
  ELSE IF cp < 2048 THEN <<192 + (cp \div 64), 128 + (cp % 64)>>
  ELSE IF cp < 65536
    THEN <<224 + (cp \div 4096), 128 + ((cp \div 64) % 64), 128 + (cp % 64)>>
  ELSE <<240 + (cp \div 262144), 128 + ((cp \div 4096) % 64),
         128 + ((cp \div 64) % 64), 128 + (cp % 64)>>

\* new Buffer(string): the UTF-8 bytes of the string; a surrogate pair is one
\* code point, an unpaired surrogate is encoded as U+FFFD
RECURSIVE BufferFromString(_)
BufferFromString(s) ==
  IF s = <<>> THEN <<>>
  ELSE IF IsHighSurrogate(s[1]) /\ Len(s) >= 2 /\ IsLowSurrogate(s[2])
    THEN EncodeCodePoint(65536 + (s[1] - 55296) * 1024 + (s[2] - 56320))
         \o BufferFromString(SubSeq(s, 3, Len(s)))
  ELSE IF IsHighSurrogate(s[1]) \/ IsLowSurrogate(s[1])
    THEN EncodeCodePoint(65533) \o BufferFromString(Tail(s))
  ELSE EncodeCodePoint(s[1]) \o BufferFromString(Tail(s))

\* UTF-16 code units of one code point
CodeUnits(cp) ==
  IF cp < 65536 THEN <<cp>>
  ELSE <<55296 + ((cp - 65536) \div 1024), 56320 + ((cp - 65536) % 1024)>>

IsContinuation(bytes, i) == i <= Len(bytes) /\ bytes[i] \in 128..191

\* Buffer.prototype.toString(): UTF-8 decoding; a byte that starts no complete
\* sequence decodes to U+FFFD
RECURSIVE BufferToString(_)
BufferToString(bytes) ==
  IF bytes = <<>> THEN <<>>
  ELSE LET b == bytes[1] IN
    IF b < 128 THEN <<b>> \o BufferToString(Tail(bytes))
    ELSE IF b \in 194..223 /\ IsContinuation(bytes, 2)
      THEN CodeUnits((b - 192) * 64 + (bytes[2] - 128))
           \o BufferToString(SubSeq(bytes, 3, Len(bytes)))
    ELSE IF b \in 224..239 /\ IsContinuation(bytes, 2) /\ IsContinuation(bytes, 3)
      THEN CodeUnits((b - 224) * 4096 + (bytes[2] - 128) * 64 + (bytes[3] - 128))
           \o BufferToString(SubSeq(bytes, 4, Len(bytes)))
    ELSE IF b \in 240..244 /\ IsContinuation(bytes, 2) /\ IsContinuation(bytes, 3)
            /\ IsContinuation(bytes, 4)
      THEN CodeUnits((b - 240) * 262144 + (bytes[2] - 128) * 4096
                     + (bytes[3] - 128) * 64 + (bytes[4] - 128))
           \o BufferToString(SubSeq(bytes, 5, Len(bytes)))
    ELSE <<65533>> \o BufferToString(Tail(bytes))

----------------------------------------------------------------------------
(* BlobPath                                                                *)

\* new BlobPath(containerName, blobName)
BlobPath(containerName, blobName) ==
  [containerName |-> containerName, blobName |-> blobName]

\* BlobPath.prototype.toString
BlobPathToString(blobPath) ==
  blobPath.containerName \o <<Slash>> \o blobPath.blobName

\* The two shapes of a `string | BlobPath` argument
StringArg(s) == [type |-> "string", value |-> s]
BlobPathArg(p) == [type |-> "BlobPath", value |-> p]

\* BlobPath.parse, taking a string with no separator as a container name
BlobPathParse_WholeStringIsContainer(blobPath) ==
  IF blobPath.type = "BlobPath" THEN blobPath.value
  ELSE LET firstSlashIndex == IndexOf(blobPath.value, Slash)
       IN IF firstSlashIndex < 0 THEN BlobPath(blobPath.value, <<>>)
          ELSE BlobPath(Substring(blobPath.value, 0, firstSlashIndex),
                        SubstringFrom(blobPath.value, firstSlashIndex + 1))

\* BlobPath.parse
BlobPathParse(blobPath) ==
  IF blobPath.type = "BlobPath" THEN blobPath.value
  ELSE LET firstSlashIndex == IndexOf(blobPath.value, Slash)
       IN BlobPath(Substring(blobPath.value, 0, firstSlashIndex),
                   SubstringFrom(blobPath.value, firstSlashIndex + 1))

----------------------------------------------------------------------------
(* Promises and errors                                                     *)

\* A settled promise: resolved with a value of the given type, or rejected
\* with an Error whose message is `value`
Resolved(type, v) == [status |-> "resolved", type |-> type, value |-> v]
ResolvedVoid == Resolved("undefined", <<>>)
Rejected(message) == [status |-> "rejected", type |-> "error", value |-> message]

\* Error messages, as sequences of their parts
InvalidResourceNameError ==
  <<"InvalidResourceName", ": ", "The specifed resource name contains invalid characters.">>
ContainerNotFoundError ==
  <<"ContainerNotFound", ": ", "The specified container does not exist.">>
BlobNotFoundError ==
  <<"BlobNotFound", ": ", "The specified blob does not exist.">>
\* The engine's TypeError for a property access on `undefined`
TypeErrorOfUndefined == <<"Cannot read property of undefined">>

\* error.message.indexOf(substring) !== -1, on the parts of the message
MessageContains(message, substring) ==
  \E i \in 1..Len(message) : message[i] = substring

\* resolveIfErrorMessageContains; resolvedValue is the settled promise to return
resolveIfErrorMessageContains(error, substring, resolvedValue) ==
  IF MessageContains(error, substring) THEN resolvedValue ELSE Rejected(error)

----------------------------------------------------------------------------
(* Plain objects used as maps                                              *)

\* The keys every object literal inherits from Object.prototype that the
\* inputs of this model use; its value is the Object function.
ObjectPrototypeKeys == {StrConstructor}

\* The object literal {}
EmptyObject == [k \in {} |-> <<>>]

\* `key in object`
HasProperty(object, key) == key \in DOMAIN object \/ key \in ObjectPrototypeKeys

\* object[key] = value
PutProperty(object, key, value) ==
  [k \in DOMAIN object \cup {key} |-> IF k = key THEN value ELSE object[k]]

\* delete object[key]: removes an own property, leaves inherited ones
DeleteProperty(object, key) == [k \in DOMAIN object \ {key} |-> object[k]]

\* References to what object[key] evaluates to
OwnContainerRef(name) == [kind |-> "own", name |-> name]
ObjectFunctionRef == [kind |-> "Object", name |-> <<>>]

\* Fields of the Object function before the backend writes to it
FreshObjectFn == [contents |-> <<>>, contentType |-> <<>>, accessPolicy |-> <<>>]

\* The state of a backend
Store(cs, fn) == [containers |-> cs, objectFn |-> fn]

DefaultContentType == "application/octet-stream"
DefaultAccessPolicy == "private"

\* (options && options.x) || fallback, for a string option
OptionOr(option, fallback) ==
  IF option # <<>> /\ option[1] # "" THEN option[1] ELSE fallback

----------------------------------------------------------------------------
(* InMemoryBlobStorage                                                     *)

\* getInMemoryContainer without the lowercase comparison
getInMemoryContainer_NoLowerCaseCheck(s, containerName) ==
  IF containerName = <<>>
    THEN Rejected(InvalidResourceNameError)
  ELSE IF containerName \in DOMAIN s.containers
    THEN Resolved("container", [kind |-> "own", name |-> containerName])
  ELSE IF containerName \in ObjectPrototypeKeys
    THEN Resolved("container", [kind |-> "Object", name |-> <<>>])
  ELSE Rejected(ContainerNotFoundError)

\* getInMemoryContainer, on the container name of its argument
getInMemoryContainer(s, containerName) ==
  IF containerName = <<>> \/ containerName # ToLowerCase(containerName)
    THEN Rejected(InvalidResourceNameError)
  ELSE IF containerName \in DOMAIN s.containers
    THEN Resolved("container", OwnContainerRef(containerName))
  ELSE IF containerName \in ObjectPrototypeKeys
    THEN Resolved("container", ObjectFunctionRef)
  ELSE Rejected(ContainerNotFoundError)

\* this.containers[name] = {name, blobs, accessPolicy} with one field replaced
WithBlobs(s, name, blobs) ==
  Store([s.containers EXCEPT ![name].blobs = blobs], s.objectFn)

NewBlob(contents, options) ==
  [contents |-> contents, contentType |-> <<OptionOr(options, DefaultContentType)>>]

\* getInMemoryBlob: resolves with a reference to container.blobs[blobName]
getInMemoryBlob(s, blobPathArg) ==
  LET blobPath == BlobPathParse(blobPathArg)
      blobName == blobPath.blobName
      c == getInMemoryContainer(s, blobPath.containerName)
  IN IF c.status = "rejected" THEN c
     ELSE IF c.value.kind = "Object" THEN Rejected(TypeErrorOfUndefined)
     ELSE LET blobs == s.containers[c.value.name].blobs
          IN IF ~HasProperty(blobs, blobName) THEN Rejected(BlobNotFoundError)
             ELSE IF blobName \in DOMAIN blobs
               THEN Resolved("blob", [kind |-> "own", container |-> c.value.name,
                                      name |-> blobName])
             ELSE Resolved("blob", [kind |-> "Object", container |-> <<>>,
                                    name |-> <<>>])

\* createBlob without the `blobName in container.blobs` test
createBlob_Overwrites(s, blobPathArg, options) ==
  LET blobPath == BlobPathParse(blobPathArg)
      blobName == blobPath.blobName
      c == getInMemoryContainer(s, blobPath.containerName)
  IN IF c.status = "rejected" THEN [store |-> s, out |-> c]
     ELSE IF c.value.kind = "Object"
       THEN [store |-> s, out |-> Rejected(TypeErrorOfUndefined)]
     ELSE LET blobs == s.containers[c.value.name].blobs
          IN [store |-> WithBlobs(s, c.value.name,
                          PutProperty(blobs, blobName, NewBlob(<<>>, options))),
              out |-> Resolved("boolean", ~HasProperty(blobs, blobName))]

\* createBlob
createBlob(s, blobPathArg, options) ==
  LET blobPath == BlobPathParse(blobPathArg)
      blobName == blobPath.blobName
      c == getInMemoryContainer(s, blobPath.containerName)
  IN IF c.status = "rejected" THEN [store |-> s, out |-> c]
     ELSE IF c.value.kind = "Object"
       THEN [store |-> s, out |-> Rejected(TypeErrorOfUndefined)]
     ELSE LET blobs == s.containers[c.value.name].blobs
          IN IF ~HasProperty(blobs, blobName)
               THEN [store |-> WithBlobs(s, c.value.name,
                                PutProperty(blobs, blobName, NewBlob(<<>>, options))),
                     out |-> Resolved("boolean", TRUE)]
             ELSE [store |-> s, out |-> Resolved("boolean", FALSE)]

\* blobExists
blobExists(s, blobPathArg) ==
  LET blobPath == BlobPathParse(blobPathArg)
      blobName == blobPath.blobName
      c == getInMemoryContainer(s, blobPath.containerName)
      then == IF c.status = "rejected" THEN c
              ELSE IF c.value.kind = "Object" THEN Rejected(TypeErrorOfUndefined)
              ELSE Resolved("boolean",
                            HasProperty(s.containers[c.value.name].blobs, blobName))
  IN [store |-> s,
      out |-> IF then.status = "rejected"
                THEN resolveIfErrorMessageContains(then.value, "ContainerNotFound",
                                                   Resolved("boolean", FALSE))
              ELSE then]

\* getBlobContentsAsString
getBlobContentsAsString(s, blobPathArg) ==
  LET b == getInMemoryBlob(s, blobPathArg)
  IN [store |-> s,
      out |-> IF b.status = "rejected" THEN b
              ELSE IF b.value.kind = "own"
                THEN Resolved("string", BufferToString(
                       s.containers[b.value.container].blobs[b.value.name].contents))
              ELSE IF s.objectFn.contents = <<>> THEN Rejected(TypeErrorOfUndefined)
              ELSE Resolved("string", BufferToString(s.objectFn.contents[1]))]

\* setBlobContentsFromString whose else-branch updates the content type only
setBlobContentsFromString_KeepsOldContents(s, blobPathArg, blobContents, options) ==
  LET blobPath == BlobPathParse(blobPathArg)
      blobName == blobPath.blobName
      c == getInMemoryContainer(s, blobPath.containerName)
  IN IF c.status = "rejected" THEN [store |-> s, out |-> c]
     ELSE IF c.value.kind = "Object"
       THEN [store |-> s, out |-> Rejected(TypeErrorOfUndefined)]
     ELSE LET blobs == s.containers[c.value.name].blobs
              written == NewBlob(BufferFromString(blobContents), options)
          IN IF ~HasProperty(blobs, blobName)
               THEN [store |-> WithBlobs(s, c.value.name,
                                         PutProperty(blobs, blobName, written)),
                     out |-> ResolvedVoid]
             ELSE IF blobName \in DOMAIN blobs
               THEN [store |-> WithBlobs(s, c.value.name,
                                 [blobs EXCEPT ![blobName].contentType =
                                                 written.contentType]),
                     out |-> ResolvedVoid]
             ELSE [store |-> Store(s.containers,
                                   [s.objectFn EXCEPT !.contentType = written.contentType]),
                   out |-> ResolvedVoid]

\* setBlobContentsFromString
setBlobContentsFromString(s, blobPathArg, blobContents, options) ==
  LET blobPath == BlobPathParse(blobPathArg)
      blobName == blobPath.blobName
      c == getInMemoryContainer(s, blobPath.containerName)
  IN IF c.status = "rejected" THEN [store |-> s, out |-> c]
     ELSE IF c.value.kind = "Object"
       THEN [store |-> s, out |-> Rejected(TypeErrorOfUndefined)]
     ELSE LET blobs == s.containers[c.value.name].blobs
              written == NewBlob(BufferFromString(blobContents), options)
          IN IF blobName \in DOMAIN blobs \/ ~HasProperty(blobs, blobName)
               THEN [store |-> WithBlobs(s, c.value.name,
                                         PutProperty(blobs, blobName, written)),
                     out |-> ResolvedVoid]
             ELSE [store |-> Store(s.containers,
                                   [s.objectFn EXCEPT !.contents = <<written.contents>>,
                                                       !.contentType = written.contentType]),
                   out |-> ResolvedVoid]

\* getBlobContentType
getBlobContentType(s, blobPathArg) ==
  LET b == getInMemoryBlob(s, blobPathArg)
      contentType == IF b.value.kind = "own"
                       THEN s.containers[b.value.container].blobs[b.value.name].contentType
                     ELSE s.objectFn.contentType
  IN [store |-> s,
      out |-> IF b.status = "rejected" THEN b
              ELSE IF contentType = <<>> THEN ResolvedVoid
              ELSE Resolved("string", contentType[1])]

\* setBlobContentType that also empties the contents of the blob
setBlobContentType_ClearsContents(s, blobPathArg, contentType) ==
  LET b == getInMemoryBlob(s, blobPathArg)
  IN IF b.status = "rejected" THEN [store |-> s, out |-> b]
     ELSE IF b.value.kind = "own"
       THEN [store |-> Store([s.containers EXCEPT
                                ![b.value.container].blobs[b.value.name] =
                                  [contents |-> <<>>, contentType |-> <<contentType>>]],
                             s.objectFn),
             out |-> ResolvedVoid]
     ELSE [store |-> Store(s.containers,
                           [s.objectFn EXCEPT !.contentType = <<contentType>>]),
           out |-> ResolvedVoid]

\* setBlobContentType
setBlobContentType(s, blobPathArg, contentType) ==
  LET b == getInMemoryBlob(s, blobPathArg)
  IN IF b.status = "rejected" THEN [store |-> s, out |-> b]
     ELSE IF b.value.kind = "own"
       THEN [store |-> Store([s.containers EXCEPT
                                ![b.value.container].blobs[b.value.name].contentType =
                                  <<contentType>>],
                             s.objectFn),
             out |-> ResolvedVoid]
     ELSE [store |-> Store(s.containers,
                           [s.objectFn EXCEPT !.contentType = <<contentType>>]),
           out |-> ResolvedVoid]

\* deleteBlob
deleteBlob(s, blobPathArg) ==
  LET blobPath == BlobPathParse(blobPathArg)
      blobName == blobPath.blobName
      c == getInMemoryContainer(s, blobPath.containerName)
  IN IF c.status = "rejected" THEN [store |-> s, out |-> c]
     ELSE IF c.value.kind = "Object"
       THEN [store |-> s, out |-> Rejected(TypeErrorOfUndefined)]
     ELSE LET blobs == s.containers[c.value.name].blobs
          IN IF HasProperty(blobs, blobName)
               THEN [store |-> WithBlobs(s, c.value.name, DeleteProperty(blobs, blobName)),
                     out |-> Resolved("boolean", TRUE)]
             ELSE [store |-> s, out |-> Resolved("boolean", FALSE)]

\* createContainer that resets a container it finds stored
createContainer_ReplacesExisting(s, containerName, options) ==
  LET c == getInMemoryContainer(s, containerName)
      caught == IF c.status = "rejected"
                  THEN resolveIfErrorMessageContains(c.value, "ContainerNotFound",
                                                     ResolvedVoid)
                ELSE c
      result == ~HasProperty(s.containers, containerName)
      created == [name |-> containerName, blobs |-> EmptyObject,
                  accessPolicy |-> OptionOr(options, DefaultAccessPolicy)]
  IN IF caught.status = "rejected" THEN [store |-> s, out |-> caught]
     ELSE IF result \/ containerName \in DOMAIN s.containers
       THEN [store |-> Store(PutProperty(s.containers, containerName, created),
                             s.objectFn),
             out |-> Resolved("boolean", result)]
     ELSE [store |-> s, out |-> Resolved("boolean", FALSE)]

\* createContainer
createContainer(s, containerName, options) ==
  LET c == getInMemoryContainer(s, containerName)
      caught == IF c.status = "rejected"
                  THEN resolveIfErrorMessageContains(c.value, "ContainerNotFound",
                                                     ResolvedVoid)
                ELSE c
      result == ~HasProperty(s.containers, containerName)
  IN IF caught.status = "rejected" THEN [store |-> s, out |-> caught]
     ELSE IF result
       THEN [store |-> Store(PutProperty(s.containers, containerName,
                               [name |-> containerName,
                                blobs |-> EmptyObject,
                                accessPolicy |-> OptionOr(options, DefaultAccessPolicy)]),
                             s.objectFn),
             out |-> Resolved("boolean", TRUE)]
     ELSE [store |-> s, out |-> Resolved("boolean", FALSE)]

\* containerExists
containerExists(s, containerName) ==
  LET c == getInMemoryContainer(s, containerName)
  IN [store |-> s,
      out |-> IF c.status = "rejected"
                THEN resolveIfErrorMessageContains(c.value, "ContainerNotFound",
                                                   Resolved("boolean", FALSE))
              ELSE Resolved("boolean", TRUE)]

\* getContainerAccessPolicy
getContainerAccessPolicy(s, containerName) ==
  LET c == getInMemoryContainer(s, containerName)
  IN [store |-> s,
      out |-> IF c.status = "rejected" THEN c
              ELSE IF c.value.kind = "own"
                THEN Resolved("string", s.containers[containerName].accessPolicy)
              ELSE IF s.objectFn.accessPolicy = <<>> THEN ResolvedVoid
              ELSE Resolved("string", s.objectFn.accessPolicy[1])]

\* setContainerAccessPolicy that resolves without assigning the policy
setContainerAccessPolicy_Discards(s, containerName, permissions) ==
  LET c == getInMemoryContainer(s, containerName)
  IN IF c.status = "rejected" THEN [store |-> s, out |-> c]
     ELSE [store |-> s, out |-> ResolvedVoid]

\* setContainerAccessPolicy
setContainerAccessPolicy(s, containerName, permissions) ==
  LET c == getInMemoryContainer(s, containerName)
  IN IF c.status = "rejected" THEN [store |-> s, out |-> c]
     ELSE IF c.value.kind = "own"
       THEN [store |-> Store([s.containers EXCEPT
                                ![containerName].accessPolicy = permissions],
                             s.objectFn),
             out |-> ResolvedVoid]
     ELSE [store |-> Store(s.containers,
                           [s.objectFn EXCEPT !.accessPolicy = <<permissions>>]),
           out |-> ResolvedVoid]

\* deleteContainer
deleteContainer(s, containerName) ==
  LET c == getInMemoryContainer(s, containerName)
  IN IF c.status = "rejected"
       THEN [store |-> s,
             out |-> resolveIfErrorMessageContains(c.value, "ContainerNotFound",
                                                   Resolved("boolean", FALSE))]
     ELSE [store |-> Store(DeleteProperty(s.containers, containerName), s.objectFn),
           out |-> Resolved("boolean", TRUE)]

----------------------------------------------------------------------------
(* Inputs                                                                  *)

\* Container names: a valid one, one that Object.prototype also has, one
\* that is not lowercase, and the empty name
ContainerNameInputs == {StrA, StrConstructor, StrUpperA, <<>>}

\* Blob path strings: "a/x", "a/constructor", "constructor/x", "A/x" and "x"
\* (no separator)
PathInputs ==
  { StrA \o <<Slash>> \o StrX,
    StrA \o <<Slash>> \o StrConstructor,
    StrConstructor \o <<Slash>> \o StrX,
    StrUpperA \o <<Slash>> \o StrX,
    StrX }

\* Blob contents: "a" + e-acute + a surrogate pair (1, 2 and 4 UTF-8 bytes),
\* and "a" followed by an unpaired high surrogate
WellFormedContents == <<97, 233, 55357, 56832>>
LoneSurrogateContents == <<97, 55357>>
ContentInputs == {WellFormedContents, LoneSurrogateContents}

\* A string is well formed when every surrogate is half of a pair
WellFormed(str) ==
  \A i \in 1..Len(str) :
    /\ IsHighSurrogate(str[i]) => (i < Len(str) /\ IsLowSurrogate(str[i + 1]))
    /\ IsLowSurrogate(str[i]) => (i > 1 /\ IsHighSurrogate(str[i - 1]))

ContentTypeInputs == {"text/plain"}
\* BlobContentOptions: absent, or with a contentType
BlobContentOptionInputs == {<<>>, <<"text/plain">>}

AccessPolicies == {"private", "blob", "container"}
SetAccessPolicyInputs == {"blob", "container"}
\* CreateContainerOptions: absent, or with an accessPolicy
CreateContainerOptionInputs == {<<>>, <<"blob">>}

----------------------------------------------------------------------------
(* The backend as a state machine: one action per awaited call             *)

store == Store(containers, objectFn)

NoCall == [op |-> "none", target |-> <<>>, contents |-> <<>>, option |-> <<>>,
           out |-> ResolvedVoid]

\* No AzureBlobStorage call yet; faults are the failures injected into a call
NoCloudCall == [op |-> "none", target |-> <<>>, contents |-> <<>>, option |-> <<>>,
                faults |-> <<>>, out |-> ResolvedVoid]

\* new FakeGitHub(): no users, no current user, no repositories
NewFakeGitHub ==
  [users |-> <<>>, currentUser |-> <<>>, repositories |-> <<>>, constructed |-> 0]

Init ==
  /\ containers = EmptyObject
  /\ objectFn = FreshObjectFn
  /\ last = NoCall
  /\ service = EmptyObject
  /\ lastCloud = NoCloudCall
  /\ tasks = <<>>
  /\ url = <<>>
  /\ github = NewFakeGitHub
  /\ exitCode = <<>>

\* Commit the result r of operation op
Complete(op, target, contents, option, r) ==
  /\ containers' = r.store.containers
  /\ objectFn' = r.store.objectFn
  /\ last' = [op |-> op, target |-> target, contents |-> contents,
              option |-> option, out |-> r.out]
  /\ UNCHANGED <<github, exitCode, service, lastCloud, tasks, url>>

CreateContainer ==
  \E n \in ContainerNameInputs, o \in CreateContainerOptionInputs :
    Complete("createContainer", n, <<>>, o, createContainer(store, n, o))

ContainerExists ==
  \E n \in ContainerNameInputs :
    Complete("containerExists", n, <<>>, <<>>, containerExists(store, n))

GetContainerAccessPolicy ==
  \E n \in ContainerNameInputs :
    Complete("getContainerAccessPolicy", n, <<>>, <<>>,
             getContainerAccessPolicy(store, n))

SetContainerAccessPolicy ==
  \E n \in ContainerNameInputs, p \in SetAccessPolicyInputs :
    Complete("setContainerAccessPolicy", n, <<>>, <<p>>,
             setContainerAccessPolicy(store, n, p))

DeleteContainer ==
  \E n \in ContainerNameInputs :
    Complete("deleteContainer", n, <<>>, <<>>, deleteContainer(store, n))

CreateBlob ==
  \E p \in PathInputs, o \in BlobContentOptionInputs :
    Complete("createBlob", p, <<>>, o, createBlob(store, StringArg(p), o))

BlobExists ==
  \E p \in PathInputs :
    Complete("blobExists", p, <<>>, <<>>, blobExists(store, StringArg(p)))

GetBlobContentsAsString ==
  \E p \in PathInputs :
    Complete("getBlobContentsAsString", p, <<>>, <<>>,
             getBlobContentsAsString(store, StringArg(p)))

SetBlobContentsFromString ==
  \E p \in PathInputs, c \in ContentInputs, o \in BlobContentOptionInputs :
    Complete("setBlobContentsFromString", p, c, o,
             setBlobContentsFromString(store, StringArg(p), c, o))

GetBlobContentType ==
  \E p \in PathInputs :
    Complete("getBlobContentType", p, <<>>, <<>>,
             getBlobContentType(store, StringArg(p)))

SetBlobContentType ==
  \E p \in PathInputs, t \in ContentTypeInputs :
    Complete("setBlobContentType", p, <<>>, <<t>>,
             setBlobContentType(store, StringArg(p), t))

DeleteBlob ==
  \E p \in PathInputs :
    Complete("deleteBlob", p, <<>>, <<>>, deleteBlob(store, StringArg(p)))

Next ==
  \/ CreateContainer
  \/ ContainerExists
  \/ GetContainerAccessPolicy
  \/ SetContainerAccessPolicy
  \/ DeleteContainer
  \/ CreateBlob
  \/ BlobExists
  \/ GetBlobContentsAsString
  \/ SetBlobContentsFromString
  \/ GetBlobContentType
  \/ SetBlobContentType
  \/ DeleteBlob

Spec == Init /\ [][Next]_vars

----------------------------------------------------------------------------
(* Vocabulary of the properties                                            *)

ContainerOps == {"createContainer", "containerExists", "getContainerAccessPolicy",
                 "setContainerAccessPolicy", "deleteContainer"}
BlobOps == {"createBlob", "blobExists", "getBlobContentsAsString",
            "setBlobContentsFromString", "getBlobContentType",
            "setBlobContentType", "deleteBlob"}

\* The container and blob a call addresses
CallContainerName(call) ==
  IF call.op \in ContainerOps THEN call.target
  ELSE BlobPathParse(StringArg(call.target)).containerName
CallBlobName(call) == BlobPathParse(StringArg(call.target)).blobName

\* A container name the backend accepts: non-empty and lowercase
ValidName(n) == n # <<>> /\ \A i \in 1..Len(n) : LowerUnit(n[i]) = n[i]

\* What was stored (created and not deleted since)
ContainerStored(cs, c) == c \in DOMAIN cs
BlobStored(cs, c, b) == c \in DOMAIN cs /\ b \in DOMAIN cs[c].blobs

OutResolved(out, type, v) ==
  out.status = "resolved" /\ out.type = type /\ out.value = v
OutRejected(out, kind) == out.status = "rejected" /\ out.value[1] = kind

----------------------------------------------------------------------------
(* C1 *)

----------------------------------------------------------------------------
(* C2 *)

\* C2: for every valid container name n that is not stored, createContainer(n)
\* resolves true; for one that is stored it resolves false and changes neither
\* the container's access policy nor its blobs.
C2_CreateContainerTwice ==
  [][(last'.op = "createContainer" /\ ValidName(last'.target))
     => IF ContainerStored(containers, last'.target)
          THEN OutResolved(last'.out, "boolean", FALSE)
               /\ containers' = containers
        ELSE OutResolved(last'.out, "boolean", TRUE)
             /\ OutResolved(createContainer(store', last'.target, last'.option).out,
                            "boolean", FALSE)]_vars

----------------------------------------------------------------------------
(* C3 *)

\* C3: createBlob(p) resolves true only when the blob was not stored and is
\* stored, empty, afterwards; when the blob is already stored it resolves false
\* and leaves the whole store, the blob's content and content type included,
\* as it was.
C3_CreateBlobNeverOverwrites ==
  [][last'.op = "createBlob"
     => LET c == CallContainerName(last')
            b == CallBlobName(last')
        IN /\ OutResolved(last'.out, "boolean", TRUE)
                => /\ ~BlobStored(containers, c, b)
                   /\ BlobStored(containers', c, b)
                   /\ containers'[c].blobs[b].contents = <<>>
           /\ BlobStored(containers, c, b)
                => /\ OutResolved(last'.out, "boolean", FALSE)
                   /\ containers' = containers
                   /\ objectFn' = objectFn]_vars

\* createBlob answered false for a stored blob that holds content
C3_Witness ==
  /\ last.op = "createBlob"
  /\ OutResolved(last.out, "boolean", FALSE)
  /\ BlobStored(containers, CallContainerName(last), CallBlobName(last))
  /\ containers[StrA].blobs[CallBlobName(last)].contents # <<>>

----------------------------------------------------------------------------
(* C4 *)

\* C4: for every blob name in a stored container, deleteBlob(p) resolves false
\* when the blob was never created, and resolves true when it is stored, after
\* which blobExists(p) resolves false.
C4_DeleteBlobResult ==
  [][(last'.op = "deleteBlob"
        /\ ContainerStored(containers, CallContainerName(last')))
     => IF BlobStored(containers, CallContainerName(last'), CallBlobName(last'))
          THEN /\ OutResolved(last'.out, "boolean", TRUE)
               /\ OutResolved(blobExists(store', StringArg(last'.target)).out,
                              "boolean", FALSE)
        ELSE OutResolved(last'.out, "boolean", FALSE)]_vars

----------------------------------------------------------------------------
(* C5 *)

\* C5: with a valid container name, getBlobContentsAsString, getBlobContentType
\* and setBlobContentType reject with ContainerNotFound when the container is
\* not stored and with BlobNotFound when the container is stored and the blob
\* is not; getContainerAccessPolicy, setContainerAccessPolicy and
\* setBlobContentsFromString reject with ContainerNotFound when the container
\* is not stored.
C5_MissingTargetErrors ==
  LET c == CallContainerName(last) IN
  /\ (last.op \in {"getBlobContentsAsString", "getBlobContentType",
                   "setBlobContentType"} /\ ValidName(c))
       => /\ ~ContainerStored(containers, c)
               => OutRejected(last.out, "ContainerNotFound")
          /\ (ContainerStored(containers, c)
                /\ ~BlobStored(containers, c, CallBlobName(last)))
               => OutRejected(last.out, "BlobNotFound")
  /\ (last.op \in {"getContainerAccessPolicy", "setContainerAccessPolicy",
                   "setBlobContentsFromString"}
        /\ ValidName(c) /\ ~ContainerStored(containers, c))
       => OutRejected(last.out, "ContainerNotFound")

----------------------------------------------------------------------------
(* C6 *)

\* C6: containerExists, blobExists, deleteContainer and deleteBlob, called
\* with a valid name for a container or blob that is not stored, resolve false.
C6_AbsenceResolvesFalse ==
  [][LET c == CallContainerName(last') IN
     /\ (last'.op \in {"containerExists", "deleteContainer"}
           /\ ValidName(c) /\ ~ContainerStored(containers, c))
          => OutResolved(last'.out, "boolean", FALSE)
     /\ (last'.op \in {"blobExists", "deleteBlob"}
           /\ ValidName(c) /\ ~BlobStored(containers, c, CallBlobName(last')))
          => OutResolved(last'.out, "boolean", FALSE)]_vars

----------------------------------------------------------------------------
(* C7 *)

\* C7: every container or blob operation whose container name is empty or not
\* lowercase rejects with InvalidResourceName, whatever containers are stored.
C7_InvalidNameRejected ==
  (last.op \in ContainerOps \cup BlobOps /\ ~ValidName(CallContainerName(last)))
  => OutRejected(last.out, "InvalidResourceName")

\* blobExists on "A/x" rejected while container a is stored
C7_Witness ==
  /\ last.op = "blobExists"
  /\ CallContainerName(last) = StrUpperA
  /\ OutRejected(last.out, "InvalidResourceName")
  /\ ContainerStored(containers, StrA)

----------------------------------------------------------------------------
(* C8 *)

\* The policy getContainerAccessPolicy(n) reports in store s
ReportedPolicy(s, n) == getContainerAccessPolicy(s, n).out

----------------------------------------------------------------------------
(* C9 *)

\* C9: deleteContainer(n) on a valid name resolves true exactly when n is
\* stored; after it resolved true containerExists(n) is false, and once n is
\* created again none of the blob names of the model exists in it and its
\* access policy is the creation default.
C9_DeleteContainer ==
  [][(last'.op = "deleteContainer" /\ ValidName(last'.target))
     => LET n == last'.target
            again == createContainer(store', n, <<>>).store
        IN /\ OutResolved(last'.out, "boolean", TRUE) <=> ContainerStored(containers, n)
           /\ OutResolved(last'.out, "boolean", TRUE)
                => /\ OutResolved(containerExists(store', n).out, "boolean", FALSE)
                   /\ \A p \in PathInputs :
                        BlobPathParse(StringArg(p)).containerName = n
                          => OutResolved(blobExists(again, StringArg(p)).out,
                                         "boolean", FALSE)
                   /\ OutResolved(ReportedPolicy(again, n), "string", "private")]_vars

----------------------------------------------------------------------------
(* BlobPath.parse on its own: every string over a small alphabet           *)

\* Longest string given to BlobPath.parse
MaxLen == 4

\* "a", "/" and "x"
PathAlphabet == {97, Slash, 120}
StringsUpTo(n) == UNION {[1..k -> PathAlphabet] : k \in 0..n}

Parsed(arg) ==
  LET blobPath == BlobPathParse(arg)
  IN [op |-> "BlobPath.parse", target |-> arg,
      contents |-> BlobPathToString(blobPath), option |-> <<>>,
      out |-> Resolved("BlobPath", blobPath)]

ParseString ==
  /\ \E v \in StringsUpTo(MaxLen) : last' = Parsed(StringArg(v))
  /\ UNCHANGED <<github, exitCode, containers, objectFn, service, lastCloud, tasks, url>>

ParseBlobPath ==
  /\ \E c \in StringsUpTo(MaxLen - 3), b \in StringsUpTo(MaxLen - 3) :
       last' = Parsed(BlobPathArg(BlobPath(c, b)))
  /\ UNCHANGED <<github, exitCode, containers, objectFn, service, lastCloud, tasks, url>>

NextPath ==
  \/ ParseString
  \/ ParseBlobPath

SpecPath == Init /\ [][NextPath]_vars

\* C10: for every string v with at least one "/", BlobPath.parse(v) has as
\* containerName the text before the first "/" and as blobName everything
\* after it, and its toString() is v; BlobPath.parse of a BlobPath is that path.
C10_ParseSplitsAtFirstSlash ==
  last.op = "BlobPath.parse"
  => LET v == last.target.value
         path == last.out.value
     IN /\ (last.target.type = "string" /\ \E i \in 1..Len(v) : v[i] = Slash)
             => /\ \E i \in 1..Len(v) :
                     /\ v[i] = Slash
                     /\ \A j \in 1..(i - 1) : v[j] # Slash
                     /\ path.containerName = SubSeq(v, 1, i - 1)
                     /\ path.blobName = SubSeq(v, i + 1, Len(v))
                /\ last.contents = v
        /\ last.target.type = "BlobPath" => path = v

\* "a/x/" was parsed: the second separator stays in the blob name
C10_Witness ==
  /\ last.op = "BlobPath.parse"
  /\ last.target = StringArg(<<97, Slash, 120, Slash>>)
  /\ last.out.value = BlobPath(<<97>>, <<120, Slash>>)

----------------------------------------------------------------------------
(* C11 *)

\* C11: BlobPath.parse of a string without a separator fails with an
\* InvalidResourceName-class error; it never returns a BlobPath.
C11_ParseWithoutSeparatorFails ==
  (last.op = "BlobPath.parse"
     /\ last.target.type = "string"
     /\ \A i \in 1..Len(last.target.value) : last.target.value[i] # Slash)
  => OutRejected(last.out, "InvalidResourceName")

----------------------------------------------------------------------------
(* The storage service, as the calls of AzureBlobStorage see it            *)
(*                                                                         *)
(* service: container name -> [publicAccess, blobs], blobs: blob name ->   *)
(* [contents, contentType].  A request answers [service, ok, value, error] *)
(* where error = [statusCode, message].  `fault` is <<>> or <<error>>: a   *)
(* transport or authentication failure the request ends with instead.      *)

\* An error of the service: its HTTP status and a message holding the error code
ServiceError(statusCode, code, description) ==
  [statusCode |-> <<statusCode>>, message |-> <<code, ": ", description>>]

ServiceContainerNotFound ==
  ServiceError(404, "ContainerNotFound", "The specified container does not exist.")
ServiceBlobNotFound ==
  ServiceError(404, "BlobNotFound", "The specified blob does not exist.")
ServiceContainerAlreadyExists ==
  ServiceError(409, "ContainerAlreadyExists", "The specified container already exists.")
ServiceBlobAlreadyExists ==
  ServiceError(409, "BlobAlreadyExists", "The specified blob already exists.")
ServiceInvalidResourceName ==
  ServiceError(400, "InvalidResourceName",
               "The specifed resource name contains invalid characters.")
\* Failures that are no answer about the target
ServiceAuthenticationFailed ==
  ServiceError(403, "AuthenticationFailed",
               "Server failed to authenticate the request.")
ServiceInternalError ==
  ServiceError(500, "InternalError", "The server encountered an internal error.")
ServiceResourceNotFound ==
  ServiceError(404, "ResourceNotFound", "The specified resource does not exist.")

Answer(svc, value) == [service |-> svc, ok |-> TRUE, value |-> value, error |-> <<>>]
Failure(svc, error) == [service |-> svc, ok |-> FALSE, value |-> <<>>, error |-> <<error>>]

\* What every request checks before it looks at its target
RequestFails(svc, fault, containerName) ==
  fault # <<>> \/ containerName = <<>> \/ containerName # ToLowerCase(containerName)
RequestFailure(svc, fault, containerName) ==
  IF fault # <<>> THEN Failure(svc, fault[1])
  ELSE Failure(svc, ServiceInvalidResourceName)

\* azure.ContainerURL.create
ContainerURL_create(svc, fault, containerName, access) ==
  IF RequestFails(svc, fault, containerName)
    THEN RequestFailure(svc, fault, containerName)
  ELSE IF containerName \in DOMAIN svc THEN Failure(svc, ServiceContainerAlreadyExists)
  ELSE Answer([k \in DOMAIN svc \cup {containerName} |->
                 IF k = containerName
                   THEN [publicAccess |-> access, blobs |-> EmptyObject]
                 ELSE svc[k]],
              <<>>)

\* azure.ContainerURL.getProperties
ContainerURL_getProperties(svc, fault, containerName) ==
  IF RequestFails(svc, fault, containerName)
    THEN RequestFailure(svc, fault, containerName)
  ELSE IF containerName \notin DOMAIN svc THEN Failure(svc, ServiceContainerNotFound)
  ELSE Answer(svc, <<>>)

\* azure.ContainerURL.getAccessPolicy: the response's blobPublicAccess
ContainerURL_getAccessPolicy(svc, fault, containerName) ==
  IF RequestFails(svc, fault, containerName)
    THEN RequestFailure(svc, fault, containerName)
  ELSE IF containerName \notin DOMAIN svc THEN Failure(svc, ServiceContainerNotFound)
  ELSE Answer(svc, svc[containerName].publicAccess)

\* azure.ContainerURL.setAccessPolicy
ContainerURL_setAccessPolicy(svc, fault, containerName, access) ==
  IF RequestFails(svc, fault, containerName)
    THEN RequestFailure(svc, fault, containerName)
  ELSE IF containerName \notin DOMAIN svc THEN Failure(svc, ServiceContainerNotFound)
  ELSE Answer([svc EXCEPT ![containerName].publicAccess = access], <<>>)

\* azure.ContainerURL.delete
ContainerURL_delete(svc, fault, containerName) ==
  IF RequestFails(svc, fault, containerName)
    THEN RequestFailure(svc, fault, containerName)
  ELSE IF containerName \notin DOMAIN svc THEN Failure(svc, ServiceContainerNotFound)
  ELSE Answer([k \in DOMAIN svc \ {containerName} |-> svc[k]], <<>>)

\* The failure of a blob request whose target is missing, <<>> when it is there
BlobMissing(svc, blobPath) ==
  IF blobPath.containerName \notin DOMAIN svc THEN <<ServiceContainerNotFound>>
  ELSE IF blobPath.blobName \notin DOMAIN svc[blobPath.containerName].blobs
    THEN <<ServiceBlobNotFound>>
  ELSE <<>>

\* azure.BlockBlobURL.upload; ifNoneMatch is <<>> or <<"*">>, the body a string
BlockBlobURL_upload(svc, fault, blobPath, body, ifNoneMatch, blobContentType) ==
  LET c == blobPath.containerName
      b == blobPath.blobName
  IN IF RequestFails(svc, fault, c) THEN RequestFailure(svc, fault, c)
     ELSE IF c \notin DOMAIN svc THEN Failure(svc, ServiceContainerNotFound)
     ELSE IF ifNoneMatch = <<"*">> /\ b \in DOMAIN svc[c].blobs
       THEN Failure(svc, ServiceBlobAlreadyExists)
     ELSE Answer([svc EXCEPT ![c].blobs =
                    PutProperty(@, b,
                      [contents |-> BufferFromString(body),
                       contentType |-> <<OptionOr(blobContentType,
                                                  DefaultContentType)>>])],
                 <<>>)

\* azure.BlobURL.getProperties: the response's contentType
BlobURL_getProperties(svc, fault, blobPath) ==
  IF RequestFails(svc, fault, blobPath.containerName)
    THEN RequestFailure(svc, fault, blobPath.containerName)
  ELSE IF BlobMissing(svc, blobPath) # <<>>
    THEN Failure(svc, BlobMissing(svc, blobPath)[1])
  ELSE Answer(svc, svc[blobPath.containerName].blobs[blobPath.blobName].contentType)

\* azure.BlobURL.download: the response's readableStreamBody (its bytes)
BlobURL_download(svc, fault, blobPath) ==
  IF RequestFails(svc, fault, blobPath.containerName)
    THEN RequestFailure(svc, fault, blobPath.containerName)
  ELSE IF BlobMissing(svc, blobPath) # <<>>
    THEN Failure(svc, BlobMissing(svc, blobPath)[1])
  ELSE Answer(svc, svc[blobPath.containerName].blobs[blobPath.blobName].contents)

\* azure.BlobURL.setHTTPHeaders
BlobURL_setHTTPHeaders(svc, fault, blobPath, blobContentType) ==
  IF RequestFails(svc, fault, blobPath.containerName)
    THEN RequestFailure(svc, fault, blobPath.containerName)
  ELSE IF BlobMissing(svc, blobPath) # <<>>
    THEN Failure(svc, BlobMissing(svc, blobPath)[1])
  ELSE Answer([svc EXCEPT ![blobPath.containerName].blobs[blobPath.blobName].contentType =
                 <<blobContentType>>],
              <<>>)

\* azure.BlobURL.delete
BlobURL_delete(svc, fault, blobPath) ==
  IF RequestFails(svc, fault, blobPath.containerName)
    THEN RequestFailure(svc, fault, blobPath.containerName)
  ELSE IF BlobMissing(svc, blobPath) # <<>>
    THEN Failure(svc, BlobMissing(svc, blobPath)[1])
  ELSE Answer([svc EXCEPT ![blobPath.containerName].blobs =
                 DeleteProperty(@, blobPath.blobName)],
              <<>>)

----------------------------------------------------------------------------
(* AzureBlobStorage                                                        *)
(*                                                                         *)
(* Each operation takes the service and the faults of its requests and     *)
(* returns [service, out].                                                 *)

\* An Error created by the backend itself: it carries no statusCode
LocalError(message) == [statusCode |-> <<>>, message |-> message]

\* Promise.reject(error): the rejection carries the error as it is
PromiseReject(error) ==
  [status |-> "rejected", type |-> "error", value |-> error.message,
   statusCode |-> error.statusCode]

\* resolveIfErrorStatusCodeEquals that resolves for every error
resolveIfErrorStatusCodeEquals_Always(error, statusCode, resolvedValue) ==
  resolvedValue

\* resolveIfErrorStatusCodeEquals
resolveIfErrorStatusCodeEquals(error, statusCode, resolvedValue) ==
  IF error.statusCode # <<>> /\ error.statusCode[1] = statusCode
    THEN resolvedValue
  ELSE PromiseReject(error)

\* resolveIfErrorMessageContains on an error of the service
resolveIfServiceErrorMessageContains(error, substring, resolvedValue) ==
  IF resolveIfErrorMessageContains(error.message, substring, resolvedValue)
       = resolvedValue
    THEN resolvedValue
  ELSE PromiseReject(error)

CloudResult(svc, out) == [service |-> svc, out |-> out]

getAzureContainerAccessPermissions(permissions) ==
  IF permissions # <<>> /\ permissions[1] # "" /\ permissions[1] # "private"
    THEN permissions
  ELSE <<>>

\* readEntireString: the stream's bytes decoded as UTF-8
readEntireString(stream) == BufferToString(stream)

Azure_blobExists(svc, faults, blobPathArg) ==
  LET a == BlobURL_getProperties(svc, faults[1], BlobPathParse(blobPathArg))
  IN CloudResult(a.service,
       IF a.ok THEN Resolved("boolean", TRUE)
       ELSE resolveIfErrorStatusCodeEquals(a.error[1], 404,
                                           Resolved("boolean", FALSE)))

Azure_getBlobContentsAsString(svc, faults, blobPathArg) ==
  LET a == BlobURL_download(svc, faults[1], BlobPathParse(blobPathArg))
  IN CloudResult(a.service,
       IF a.ok THEN Resolved("string", readEntireString(a.value))
       ELSE PromiseReject(a.error[1]))

Azure_setBlobContentsFromString(svc, faults, blobPathArg, blobContents, options) ==
  LET a == BlockBlobURL_upload(svc, faults[1], BlobPathParse(blobPathArg),
                               blobContents, <<>>, options)
  IN CloudResult(a.service,
       IF a.ok THEN ResolvedVoid ELSE PromiseReject(a.error[1]))

Azure_containerExists(svc, faults, containerName) ==
  LET a == ContainerURL_getProperties(svc, faults[1], containerName)
  IN CloudResult(a.service,
       IF a.ok THEN Resolved("boolean", TRUE)
       ELSE resolveIfServiceErrorMessageContains(a.error[1], "ContainerNotFound",
                                                 Resolved("boolean", FALSE)))

\* getBlobContentType that resolves undefined when the blob is not found
Azure_getBlobContentType_ResolvesOnNotFound(svc, faults, blobPathArg) ==
  LET a == BlobURL_getProperties(svc, faults[1], BlobPathParse(blobPathArg))
  IN CloudResult(a.service,
       IF a.ok THEN Resolved("string", a.value[1])
       ELSE IF a.error[1].statusCode # <<404>> THEN PromiseReject(a.error[1])
       ELSE Resolved("undefined", <<>>))

\* faults[1] is for the blob's getProperties, faults[2] for containerExists
Azure_getBlobContentType(svc, faults, blobPathArg) ==
  LET blobPath == BlobPathParse(blobPathArg)
      a == BlobURL_getProperties(svc, faults[1], blobPath)
      e == Azure_containerExists(a.service, <<faults[2]>>, blobPath.containerName)
  IN IF a.ok THEN CloudResult(a.service, Resolved("string", a.value[1]))
     ELSE IF a.error[1].statusCode # <<404>>
       THEN CloudResult(a.service, PromiseReject(a.error[1]))
     ELSE CloudResult(e.service,
            IF e.out.status = "rejected" THEN e.out
            ELSE PromiseReject(LocalError(IF ~e.out.value THEN ContainerNotFoundError
                                          ELSE BlobNotFoundError)))

Azure_setBlobContentType(svc, faults, blobPathArg, contentType) ==
  LET a == BlobURL_setHTTPHeaders(svc, faults[1], BlobPathParse(blobPathArg),
                                  contentType)
  IN CloudResult(a.service,
       IF a.ok THEN ResolvedVoid ELSE PromiseReject(a.error[1]))

\* getContainerAccessPolicy without the `|| "private"` default
Azure_getContainerAccessPolicy_NoDefault(svc, faults, containerName) ==
  LET a == ContainerURL_getAccessPolicy(svc, faults[1], containerName)
  IN CloudResult(a.service,
       IF a.ok THEN (IF a.value = <<>> THEN Resolved("undefined", <<>>)
                     ELSE Resolved("string", a.value[1]))
       ELSE PromiseReject(a.error[1]))

Azure_getContainerAccessPolicy(svc, faults, containerName) ==
  LET a == ContainerURL_getAccessPolicy(svc, faults[1], containerName)
  IN CloudResult(a.service,
       IF a.ok THEN Resolved("string", OptionOr(a.value, "private"))
       ELSE PromiseReject(a.error[1]))

Azure_setContainerAccessPolicy(svc, faults, containerName, permissions) ==
  LET a == ContainerURL_setAccessPolicy(svc, faults[1], containerName,
             getAzureContainerAccessPermissions(<<permissions>>))
  IN CloudResult(a.service,
       IF a.ok THEN ResolvedVoid ELSE PromiseReject(a.error[1]))

\* createBlob without the ifNoneMatch condition on the upload
Azure_createBlob_Unconditional(svc, faults, blobPathArg, options) ==
  LET a == BlockBlobURL_upload(svc, faults[1], BlobPathParse(blobPathArg),
                               <<>>, <<>>, options)
  IN CloudResult(a.service,
       IF a.ok THEN Resolved("boolean", TRUE)
       ELSE resolveIfServiceErrorMessageContains(a.error[1], "BlobAlreadyExists",
                                                 Resolved("boolean", FALSE)))

Azure_createBlob(svc, faults, blobPathArg, options) ==
  LET a == BlockBlobURL_upload(svc, faults[1], BlobPathParse(blobPathArg),
                               <<>>, <<"*">>, options)
  IN CloudResult(a.service,
       IF a.ok THEN Resolved("boolean", TRUE)
       ELSE resolveIfServiceErrorMessageContains(a.error[1], "BlobAlreadyExists",
                                                 Resolved("boolean", FALSE)))

Azure_deleteBlob(svc, faults, blobPathArg) ==
  LET a == BlobURL_delete(svc, faults[1], BlobPathParse(blobPathArg))
  IN CloudResult(a.service,
       IF a.ok THEN Resolved("boolean", TRUE)
       ELSE resolveIfServiceErrorMessageContains(a.error[1], "BlobNotFound",
                                                 Resolved("boolean", FALSE)))

Azure_createContainer(svc, faults, containerName, options) ==
  LET a == ContainerURL_create(svc, faults[1], containerName,
                               getAzureContainerAccessPermissions(options))
  IN CloudResult(a.service,
       IF a.ok THEN Resolved("boolean", TRUE)
       ELSE resolveIfServiceErrorMessageContains(a.error[1], "ContainerAlreadyExists",
                                                 Resolved("boolean", FALSE)))

Azure_deleteContainer(svc, faults, containerName) ==
  LET a == ContainerURL_delete(svc, faults[1], containerName)
  IN CloudResult(a.service,
       IF a.ok THEN Resolved("boolean", TRUE)
       ELSE resolveIfErrorStatusCodeEquals(a.error[1], 404,
                                           Resolved("boolean", FALSE)))

----------------------------------------------------------------------------
(* AzureBlobStorage against the service, with failing requests             *)

CloudNameInputs == {StrA}
CloudPathInputs == {StrA \o <<Slash>> \o StrX}
CloudContentInputs == {WellFormedContents}
FaultInputs == {<<>>, <<ServiceAuthenticationFailed>>, <<ServiceInternalError>>,
                <<ServiceResourceNotFound>>}

CompleteCloud(op, target, contents, option, faults, r) ==
  /\ service' = r.service
  /\ lastCloud' = [op |-> op, target |-> target, contents |-> contents,
                   option |-> option, faults |-> faults, out |-> r.out]
  /\ UNCHANGED <<github, exitCode, containers, objectFn, last, tasks, url>>

CloudCreateContainer ==
  \E n \in CloudNameInputs, o \in CreateContainerOptionInputs, f \in FaultInputs :
    CompleteCloud("createContainer", n, <<>>, o, <<f>>,
                  Azure_createContainer(service, <<f>>, n, o))

CloudContainerExists ==
  \E n \in CloudNameInputs, f \in FaultInputs :
    CompleteCloud("containerExists", n, <<>>, <<>>, <<f>>,
                  Azure_containerExists(service, <<f>>, n))

CloudGetContainerAccessPolicy ==
  \E n \in CloudNameInputs, f \in FaultInputs :
    CompleteCloud("getContainerAccessPolicy", n, <<>>, <<>>, <<f>>,
                  Azure_getContainerAccessPolicy(service, <<f>>, n))

CloudSetContainerAccessPolicy ==
  \E n \in CloudNameInputs, a \in AccessPolicies, f \in FaultInputs :
    CompleteCloud("setContainerAccessPolicy", n, <<>>, <<a>>, <<f>>,
                  Azure_setContainerAccessPolicy(service, <<f>>, n, a))

CloudDeleteContainer ==
  \E n \in CloudNameInputs, f \in FaultInputs :
    CompleteCloud("deleteContainer", n, <<>>, <<>>, <<f>>,
                  Azure_deleteContainer(service, <<f>>, n))

CloudCreateBlob ==
  \E p \in CloudPathInputs, o \in BlobContentOptionInputs, f \in FaultInputs :
    CompleteCloud("createBlob", p, <<>>, o, <<f>>,
                  Azure_createBlob(service, <<f>>, StringArg(p), o))

CloudBlobExists ==
  \E p \in CloudPathInputs, f \in FaultInputs :
    CompleteCloud("blobExists", p, <<>>, <<>>, <<f>>,
                  Azure_blobExists(service, <<f>>, StringArg(p)))

CloudGetBlobContentsAsString ==
  \E p \in CloudPathInputs, f \in FaultInputs :
    CompleteCloud("getBlobContentsAsString", p, <<>>, <<>>, <<f>>,
                  Azure_getBlobContentsAsString(service, <<f>>, StringArg(p)))

CloudSetBlobContentsFromString ==
  \E p \in CloudPathInputs, s \in CloudContentInputs,
     o \in BlobContentOptionInputs, f \in FaultInputs :
    CompleteCloud("setBlobContentsFromString", p, s, o, <<f>>,
                  Azure_setBlobContentsFromString(service, <<f>>, StringArg(p), s, o))

CloudGetBlobContentType ==
  \E p \in CloudPathInputs, f1 \in FaultInputs, f2 \in FaultInputs :
    CompleteCloud("getBlobContentType", p, <<>>, <<>>, <<f1, f2>>,
                  Azure_getBlobContentType(service, <<f1, f2>>, StringArg(p)))

CloudSetBlobContentType ==
  \E p \in CloudPathInputs, t \in ContentTypeInputs, f \in FaultInputs :
    CompleteCloud("setBlobContentType", p, <<>>, <<t>>, <<f>>,
                  Azure_setBlobContentType(service, <<f>>, StringArg(p), t))

CloudDeleteBlob ==
  \E p \in CloudPathInputs, f \in FaultInputs :
    CompleteCloud("deleteBlob", p, <<>>, <<>>, <<f>>,
                  Azure_deleteBlob(service, <<f>>, StringArg(p)))

NextCloud ==
  \/ CloudCreateContainer
  \/ CloudContainerExists
  \/ CloudGetContainerAccessPolicy
  \/ CloudSetContainerAccessPolicy
  \/ CloudDeleteContainer
  \/ CloudCreateBlob
  \/ CloudBlobExists
  \/ CloudGetBlobContentsAsString
  \/ CloudSetBlobContentsFromString
  \/ CloudGetBlobContentType
  \/ CloudSetBlobContentType
  \/ CloudDeleteBlob

SpecCloud == Init /\ [][NextCloud]_vars

----------------------------------------------------------------------------
(* Both backends driven by the same sequence of calls, no request failing  *)

ParityNameInputs == {StrA, StrConstructor}
ParityPathInputs ==
  { StrA \o <<Slash>> \o StrX,
    StrA \o <<Slash>> \o StrConstructor,
    StrConstructor \o <<Slash>> \o StrX }

\* The call completes on the in-memory backend (r) and on the cloud backend (c)
CompleteBoth(op, target, contents, option, r, c) ==
  /\ containers' = r.store.containers
  /\ objectFn' = r.store.objectFn
  /\ last' = [op |-> op, target |-> target, contents |-> contents,
              option |-> option, out |-> r.out]
  /\ service' = c.service
  /\ lastCloud' = [op |-> op, target |-> target, contents |-> contents,
                   option |-> option, faults |-> <<<<>>>>, out |-> c.out]
  /\ UNCHANGED <<github, exitCode, tasks, url>>

BothCreateContainer ==
  \E n \in ParityNameInputs, o \in CreateContainerOptionInputs :
    CompleteBoth("createContainer", n, <<>>, o,
                 createContainer(store, n, o),
                 Azure_createContainer(service, <<<<>>>>, n, o))

BothCreateBlob ==
  \E p \in ParityPathInputs, o \in BlobContentOptionInputs :
    CompleteBoth("createBlob", p, <<>>, o,
                 createBlob(store, StringArg(p), o),
                 Azure_createBlob(service, <<<<>>>>, StringArg(p), o))

BothSetBlobContentsFromString ==
  \E p \in ParityPathInputs, s \in ContentInputs, o \in BlobContentOptionInputs :
    CompleteBoth("setBlobContentsFromString", p, s, o,
                 setBlobContentsFromString(store, StringArg(p), s, o),
                 Azure_setBlobContentsFromString(service, <<<<>>>>, StringArg(p), s, o))

BothGetBlobContentsAsString ==
  \E p \in ParityPathInputs :
    CompleteBoth("getBlobContentsAsString", p, <<>>, <<>>,
                 getBlobContentsAsString(store, StringArg(p)),
                 Azure_getBlobContentsAsString(service, <<<<>>>>, StringArg(p)))

BothBlobExists ==
  \E p \in ParityPathInputs :
    CompleteBoth("blobExists", p, <<>>, <<>>,
                 blobExists(store, StringArg(p)),
                 Azure_blobExists(service, <<<<>>>>, StringArg(p)))

BothDeleteBlob ==
  \E p \in ParityPathInputs :
    CompleteBoth("deleteBlob", p, <<>>, <<>>,
                 deleteBlob(store, StringArg(p)),
                 Azure_deleteBlob(service, <<<<>>>>, StringArg(p)))

NextParity ==
  \/ BothCreateContainer
  \/ BothCreateBlob
  \/ BothSetBlobContentsFromString
  \/ BothGetBlobContentsAsString
  \/ BothBlobExists
  \/ BothDeleteBlob

SpecParity == Init /\ [][NextParity]_vars

\* Same value when both resolve, same error kind when both reject
SameOutcome(o1, o2) ==
  /\ o1.status = o2.status
  /\ o1.status = "resolved" => (o1.type = o2.type /\ o1.value = o2.value)
  /\ o1.status = "rejected" => o1.value[1] = o2.value[1]

----------------------------------------------------------------------------
(* C12 *)

\* C12: after the same sequence of createContainer, createBlob,
\* setBlobContentsFromString, getBlobContentsAsString, blobExists and deleteBlob
\* calls on valid names, with no transport error, the in-memory backend and
\* the cloud backend give the same result for every call.
C12_BackendParity ==
  (last.op # "none" /\ ValidName(CallContainerName(last)))
  => SameOutcome(last.out, lastCloud.out)

----------------------------------------------------------------------------
(* Concurrent creators on InMemoryBlobStorage                              *)
(*                                                                         *)
(* A call runs getInMemoryContainer synchronously and returns; each        *)
(* callback of its promise chain runs later as a step of its own, in any   *)
(* order with the callbacks of the other calls in flight.                  *)

MaxCalls == 3

ConcNameInputs == {StrA, StrConstructor}
ConcPathInputs == {StrA \o <<Slash>> \o StrX, StrA \o <<Slash>> \o StrConstructor}

\* A call in flight: pc is the callback to run next, held the settled promise
\* that callback receives, out the settled promise of the call once pc = "done"
Task(op, target, option, pc, held) ==
  [op |-> op, target |-> target, option |-> option, pc |-> pc, held |-> held,
   out |-> ResolvedVoid]

\* createContainer: the .catch callback
createContainer_catch(held) ==
  IF held.status = "rejected"
    THEN resolveIfErrorMessageContains(held.value, "ContainerNotFound", ResolvedVoid)
  ELSE held

\* createContainer: the .then callback, on the promise the .catch returned
createContainer_then(s, caught, containerName, options) ==
  IF caught.status = "rejected" THEN [store |-> s, out |-> caught]
  ELSE IF ~HasProperty(s.containers, containerName)
    THEN [store |-> Store(PutProperty(s.containers, containerName,
                            [name |-> containerName,
                             blobs |-> EmptyObject,
                             accessPolicy |-> OptionOr(options, DefaultAccessPolicy)]),
                          s.objectFn),
          out |-> Resolved("boolean", TRUE)]
  ELSE [store |-> s, out |-> Resolved("boolean", FALSE)]

\* createBlob: the .then callback, on the container the call looked up
createBlob_then(s, c, blobName, options) ==
  IF c.status = "rejected" THEN [store |-> s, out |-> c]
  ELSE IF c.value.kind = "Object"
    THEN [store |-> s, out |-> Rejected(TypeErrorOfUndefined)]
  ELSE LET blobs == s.containers[c.value.name].blobs
       IN IF ~HasProperty(blobs, blobName)
            THEN [store |-> WithBlobs(s, c.value.name,
                             PutProperty(blobs, blobName, NewBlob(<<>>, options))),
                  out |-> Resolved("boolean", TRUE)]
          ELSE [store |-> s, out |-> Resolved("boolean", FALSE)]

\* createContainer(n) is called: the lookup runs, the callbacks are queued
CallCreateContainer ==
  \E n \in ConcNameInputs :
    /\ Len(tasks) < MaxCalls
    /\ tasks' = Append(tasks, Task("createContainer", n, <<>>, "catch",
                                   getInMemoryContainer(store, n)))
    /\ UNCHANGED <<github, exitCode, containers, objectFn, last, service, lastCloud, url>>

\* createBlob(p) is called: the path is parsed, the container looked up
CallCreateBlob ==
  \E p \in ConcPathInputs :
    /\ Len(tasks) < MaxCalls
    /\ tasks' = Append(tasks, Task("createBlob", p, <<>>, "then",
                                   getInMemoryContainer(store,
                                     BlobPathParse(StringArg(p)).containerName)))
    /\ UNCHANGED <<github, exitCode, containers, objectFn, last, service, lastCloud, url>>

RunCreateContainerCatch ==
  \E i \in 1..Len(tasks) :
    /\ tasks[i].op = "createContainer" /\ tasks[i].pc = "catch"
    /\ tasks' = [tasks EXCEPT ![i].pc = "then",
                              ![i].held = createContainer_catch(tasks[i].held)]
    /\ UNCHANGED <<github, exitCode, containers, objectFn, last, service, lastCloud, url>>

RunCreateContainerThen ==
  \E i \in 1..Len(tasks) :
    /\ tasks[i].op = "createContainer" /\ tasks[i].pc = "then"
    /\ LET r == createContainer_then(store, tasks[i].held, tasks[i].target,
                                     tasks[i].option)
       IN /\ containers' = r.store.containers
          /\ objectFn' = r.store.objectFn
          /\ tasks' = [tasks EXCEPT ![i].pc = "done", ![i].out = r.out]
    /\ UNCHANGED <<github, exitCode, last, service, lastCloud, url>>

RunCreateBlobThen ==
  \E i \in 1..Len(tasks) :
    /\ tasks[i].op = "createBlob" /\ tasks[i].pc = "then"
    /\ LET r == createBlob_then(store, tasks[i].held,
                                BlobPathParse(StringArg(tasks[i].target)).blobName,
                                tasks[i].option)
       IN /\ containers' = r.store.containers
          /\ objectFn' = r.store.objectFn
          /\ tasks' = [tasks EXCEPT ![i].pc = "done", ![i].out = r.out]
    /\ UNCHANGED <<github, exitCode, last, service, lastCloud, url>>

NextConc ==
  \/ CallCreateContainer
  \/ CallCreateBlob
  \/ RunCreateContainerCatch
  \/ RunCreateContainerThen
  \/ RunCreateBlobThen

SpecConc == Init /\ [][NextConc]_vars

\* The calls of one operation on one target, and those of them that resolved true
Creators(op, target) ==
  {i \in 1..Len(tasks) : tasks[i].op = op /\ tasks[i].target = target}
Winners(op, target) ==
  {i \in Creators(op, target) :
     tasks[i].pc = "done" /\ OutResolved(tasks[i].out, "boolean", TRUE)}
Settled(op, target) ==
  \A i \in Creators(op, target) : tasks[i].pc = "done"

----------------------------------------------------------------------------
(* C13 *)

\* C13: of the concurrent createContainer(n) calls on one absent valid name,
\* never two resolve true, and once all have settled exactly one has resolved
\* true and the others false; the same for concurrent createBlob(p) calls on
\* one absent blob of an existing container.
C13_OneCreatorWins ==
  /\ \A n \in ConcNameInputs :
       /\ Cardinality(Winners("createContainer", n)) <= 1
       /\ (Cardinality(Creators("createContainer", n)) >= 2
           /\ Settled("createContainer", n))
          => /\ Cardinality(Winners("createContainer", n)) = 1
             /\ \A i \in Creators("createContainer", n) :
                  tasks[i].out.type = "boolean"
  /\ \A p \in ConcPathInputs :
       LET called == {i \in Creators("createBlob", p) :
                        tasks[i].held.status = "resolved"}
       IN /\ Cardinality(Winners("createBlob", p)) <= 1
          /\ (Cardinality(called) >= 2 /\ \A i \in called : tasks[i].pc = "done")
             => /\ Cardinality(Winners("createBlob", p)) = 1
                /\ \A i \in called : tasks[i].out.type = "boolean"

----------------------------------------------------------------------------
(* Vocabulary of the cloud properties                                      *)

CloudBlobPath(call) == BlobPathParse(StringArg(call.target))

\* No request of the call was made to fail
NoFault(call) == \A i \in 1..Len(call.faults) : call.faults[i] = <<>>

\* The i-th request of the call was made to fail with one of these statuses
FaultStatus(call, i, statuses) ==
  /\ call.faults[i] # <<>>
  /\ call.faults[i][1].statusCode # <<>>
  /\ call.faults[i][1].statusCode[1] \in statuses

\* The promise rejected with exactly this error: status, message and all
RejectedUnmodified(out, error) == out = PromiseReject(error)

----------------------------------------------------------------------------
(* C14 *)

\* C14: on the cloud backend createBlob on a blob that already exists resolves
\* false and leaves the blob as it was (the upload is conditional), and
\* createContainer on a container that already exists resolves false; neither
\* ever rejects with a BlobAlreadyExists or ContainerAlreadyExists failure.
C14_AlreadyExistsIsFalse ==
  [][ /\ (lastCloud'.op = "createBlob" /\ NoFault(lastCloud')
          /\ BlobMissing(service, CloudBlobPath(lastCloud')) = <<>>)
         => (OutResolved(lastCloud'.out, "boolean", FALSE) /\ service' = service)
      /\ (lastCloud'.op = "createContainer" /\ NoFault(lastCloud')
          /\ lastCloud'.target \in DOMAIN service)
         => (OutResolved(lastCloud'.out, "boolean", FALSE) /\ service' = service)
      /\ lastCloud'.op \in {"createBlob", "createContainer"}
         => /\ ~OutRejected(lastCloud'.out, "BlobAlreadyExists")
            /\ ~OutRejected(lastCloud'.out, "ContainerAlreadyExists")
    ]_vars

\* createBlob resolved false on a blob that has contents, and they are still there
C14_Witness ==
  /\ lastCloud.op = "createBlob"
  /\ NoFault(lastCloud)
  /\ OutResolved(lastCloud.out, "boolean", FALSE)
  /\ BlobMissing(service, CloudBlobPath(lastCloud)) = <<>>
  /\ service[CloudBlobPath(lastCloud).containerName]
       .blobs[CloudBlobPath(lastCloud).blobName].contents
     = BufferFromString(WellFormedContents)

----------------------------------------------------------------------------
(* C15 *)

\* C15: on the cloud backend containerExists and blobExists resolve false
\* whenever their request fails with status 404, and deleteBlob and
\* deleteContainer resolve false whenever the service reports the target as
\* not found, deleteBlob also when the container of the blob is missing.
C15_NotFoundIsFalse ==
  [][ /\ (lastCloud'.op = "containerExists"
          /\ (FaultStatus(lastCloud', 1, {404})
              \/ (NoFault(lastCloud') /\ lastCloud'.target \notin DOMAIN service)))
         => OutResolved(lastCloud'.out, "boolean", FALSE)
      /\ (lastCloud'.op = "blobExists"
          /\ (FaultStatus(lastCloud', 1, {404})
              \/ (NoFault(lastCloud')
                  /\ BlobMissing(service, CloudBlobPath(lastCloud')) # <<>>)))
         => OutResolved(lastCloud'.out, "boolean", FALSE)
      /\ (lastCloud'.op = "deleteContainer" /\ NoFault(lastCloud')
          /\ lastCloud'.target \notin DOMAIN service)
         => OutResolved(lastCloud'.out, "boolean", FALSE)
      /\ (lastCloud'.op = "deleteBlob" /\ NoFault(lastCloud')
          /\ BlobMissing(service, CloudBlobPath(lastCloud')) # <<>>)
         => OutResolved(lastCloud'.out, "boolean", FALSE)
    ]_vars

----------------------------------------------------------------------------
(* C16 *)

\* C16: when a request of a cloud operation fails with an authentication or
\* server error (status 403 or 500), the operation's promise rejects with that
\* very error, unmodified; it never becomes a boolean or another error.
C16_OtherErrorsPropagate ==
  /\ (lastCloud.op # "none" /\ FaultStatus(lastCloud, 1, {403, 500}))
     => RejectedUnmodified(lastCloud.out, lastCloud.faults[1][1])
  /\ (lastCloud.op = "getBlobContentType"
      /\ (FaultStatus(lastCloud, 1, {404})
          \/ (lastCloud.faults[1] = <<>>
              /\ BlobMissing(service, CloudBlobPath(lastCloud)) # <<>>))
      /\ FaultStatus(lastCloud, 2, {403, 500}))
     => RejectedUnmodified(lastCloud.out, lastCloud.faults[2][1])

\* deleteContainer, which turns a 404 into false, rejected with the 500 it got
C16_Witness ==
  /\ lastCloud.op = "deleteContainer"
  /\ lastCloud.faults = <<<<ServiceInternalError>>>>
  /\ lastCloud.target \in DOMAIN service
  /\ lastCloud.out.status = "rejected"
  /\ lastCloud.out.statusCode = <<500>>
  /\ lastCloud.out.value = ServiceInternalError.message

----------------------------------------------------------------------------
(* C17 *)

\* The properties request of the last getBlobContentType call failed with 404
PropertiesNotFound ==
  /\ lastCloud.op = "getBlobContentType"
  /\ \/ FaultStatus(lastCloud, 1, {404})
     \/ (lastCloud.faults[1] = <<>>
         /\ BlobMissing(service, CloudBlobPath(lastCloud)) # <<>>)

\* C17 (as stated): after the properties request fails with 404, cloud
\* getBlobContentType rejects with ContainerNotFound when the container is
\* absent and with BlobNotFound when it is present; after a failure with
\* another status it rejects with the original error.
C17_NotFoundDisambiguated ==
  /\ PropertiesNotFound
     => IF CloudBlobPath(lastCloud).containerName \in DOMAIN service
          THEN OutRejected(lastCloud.out, "BlobNotFound")
        ELSE OutRejected(lastCloud.out, "ContainerNotFound")
  /\ (lastCloud.op = "getBlobContentType" /\ FaultStatus(lastCloud, 1, {403, 500}))
     => RejectedUnmodified(lastCloud.out, lastCloud.faults[1][1])

\* C17 (amended): after the properties request fails with 404, cloud
\* getBlobContentType never resolves; when the secondary containerExists
\* check answers, it rejects with ContainerNotFound for an absent container
\* and with BlobNotFound for a present one; when the secondary check itself
\* fails, it rejects with the error of that check.  After a properties
\* failure with another status it rejects with the original error, whatever
\* a secondary check would have answered.
C17_NotFoundDisambiguatedOrCheckFails ==
  /\ PropertiesNotFound
     => /\ lastCloud.out.status = "rejected"
        /\ lastCloud.faults[2] = <<>>
           => lastCloud.out =
                PromiseReject(LocalError(
                  IF CloudBlobPath(lastCloud).containerName \in DOMAIN service
                    THEN BlobNotFoundError
                  ELSE ContainerNotFoundError))
        /\ lastCloud.faults[2] # <<>>
           => RejectedUnmodified(lastCloud.out, lastCloud.faults[2][1])
  /\ (lastCloud.op = "getBlobContentType" /\ FaultStatus(lastCloud, 1, {403, 500}))
     => RejectedUnmodified(lastCloud.out, lastCloud.faults[1][1])

\* The blob is missing from a container that exists: BlobNotFound
C17_Witness ==
  /\ PropertiesNotFound
  /\ NoFault(lastCloud)
  /\ CloudBlobPath(lastCloud).containerName \in DOMAIN service
  /\ OutRejected(lastCloud.out, "BlobNotFound")

----------------------------------------------------------------------------
(* listContainers                                                          *)

MaxSegments == 3

\* new BlobStorageContainer(storage, name)
BlobStorageContainer(storage, name) == [storage |-> storage, name |-> name]

\* A sequence holding each element of the set once (Object.keys order is not kept)
RECURSIVE Keys(_)
Keys(S) ==
  IF S = {} THEN <<>>
  ELSE LET k == CHOOSE k \in S : TRUE IN <<k>> \o Keys(S \ {k})

\* InMemoryBlobStorage.listContainers that also lists inherited keys
listContainers_WithInheritedKeys(s) ==
  [store |-> s,
   out |-> Resolved("containers",
             LET keys == Keys(DOMAIN s.containers \cup ObjectPrototypeKeys)
             IN [i \in 1..Len(keys) |->
                   BlobStorageContainer("InMemoryBlobStorage", keys[i])])]

\* InMemoryBlobStorage.listContainers
listContainers(s) ==
  [store |-> s,
   out |-> Resolved("containers",
             LET keys == Keys(DOMAIN s.containers)
             IN [i \in 1..Len(keys) |->
                   BlobStorageContainer("InMemoryBlobStorage", keys[i])])]

ListContainers ==
  Complete("listContainers", <<>>, <<>>, <<>>, listContainers(store))

\* What the service may answer to listContainersSegment: the container items
\* of the segment and the marker of the next one, "" when there is none
SegmentItemInputs == {<<>>, <<[name |-> StrA]>>, <<[name |-> StrA], [name |-> StrX]>>}
MarkerInputs == {"", "m1", "m2"}

\* AzureBlobStorage.listContainers in flight: the markers of the requests made
\* (<<>>: none given), the responses received, the handles pushed so far
ListTask(pc, requests, responses, result, out) ==
  [op |-> "listContainers", pc |-> pc, requests |-> requests,
   responses |-> responses, result |-> result, out |-> out]

\* The handles of one response
SegmentContainers(listContainersResponse) ==
  LET containerItems == listContainersResponse.containerItems
  IN [i \in 1..Len(containerItems) |->
        BlobStorageContainer("AzureBlobStorage", containerItems[i].name)]

\* listContainers is called: the first segment is requested, without a marker
CallListContainers ==
  /\ tasks = <<>>
  /\ tasks' = <<ListTask("await", <<<<>>>>, <<>>, <<>>, ResolvedVoid)>>
  /\ UNCHANGED <<github, exitCode, containers, objectFn, last, service, lastCloud, url>>

\* listContainers that stops after the first segment
ListSegmentArrives_FirstOnly ==
  \E items \in SegmentItemInputs, nextMarker \in MarkerInputs :
    LET task == tasks[1]
        listContainersResponse == [containerItems |-> items, nextMarker |-> nextMarker]
        result == task.result \o SegmentContainers(listContainersResponse)
    IN /\ Len(tasks) = 1 /\ task.op = "listContainers" /\ task.pc = "await"
       /\ Len(task.responses) + 1 = MaxSegments => nextMarker = ""
       /\ tasks' = <<ListTask("done", task.requests,
                              Append(task.responses, listContainersResponse),
                              result, Resolved("containers", result))>>
       /\ UNCHANGED <<github, exitCode, containers, objectFn, last, service, lastCloud, url>>

\* A segment arrives: its handles are pushed, and while it carries a marker
\* the next segment is requested with it; otherwise the result is returned
ListSegmentArrives ==
  \E items \in SegmentItemInputs, nextMarker \in MarkerInputs :
    LET task == tasks[1]
        listContainersResponse == [containerItems |-> items, nextMarker |-> nextMarker]
        result == task.result \o SegmentContainers(listContainersResponse)
    IN /\ Len(tasks) = 1 /\ task.op = "listContainers" /\ task.pc = "await"
       /\ Len(task.responses) + 1 = MaxSegments => nextMarker = ""
       /\ tasks' =
            IF nextMarker # ""
              THEN <<ListTask("await", Append(task.requests, <<nextMarker>>),
                              Append(task.responses, listContainersResponse),
                              result, ResolvedVoid)>>
            ELSE <<ListTask("done", task.requests,
                            Append(task.responses, listContainersResponse),
                            result, Resolved("containers", result))>>
       /\ UNCHANGED <<github, exitCode, containers, objectFn, last, service, lastCloud, url>>

\* A segment request fails: the await throws and the call rejects
ListSegmentFails ==
  /\ Len(tasks) = 1 /\ tasks[1].op = "listContainers" /\ tasks[1].pc = "await"
  /\ tasks' = <<ListTask("done", tasks[1].requests, tasks[1].responses,
                         tasks[1].result, PromiseReject(ServiceInternalError))>>
  /\ UNCHANGED <<github, exitCode, containers, objectFn, last, service, lastCloud, url>>

\* The settled call is dropped; another can be made
ListReturns ==
  /\ Len(tasks) = 1 /\ tasks[1].op = "listContainers" /\ tasks[1].pc = "done"
  /\ tasks' = <<>>
  /\ UNCHANGED <<github, exitCode, containers, objectFn, last, service, lastCloud, url>>

NextList ==
  \/ CreateContainer
  \/ DeleteContainer
  \/ ListContainers
  \/ CallListContainers
  \/ ListSegmentArrives
  \/ ListSegmentFails
  \/ ListReturns

SpecList == Init /\ [][NextList]_vars

\* The handles of all the responses, in the order they arrived
RECURSIVE AllSegmentContainers(_)
AllSegmentContainers(responses) ==
  IF responses = <<>> THEN <<>>
  ELSE SegmentContainers(Head(responses)) \o AllSegmentContainers(Tail(responses))

----------------------------------------------------------------------------
(* C18 *)

\* C18: cloud listContainers requests the first segment without a marker and
\* every later segment with the marker of the response before it; it goes on
\* exactly while the last response carries a marker, and when it returns, its
\* result is one handle bound to this backend for every item of every
\* segment, in order.  In-memory listContainers returns exactly one handle
\* per stored container.
C18_ListContainers ==
  /\ \A i \in 1..Len(tasks) :
       tasks[i].op = "listContainers"
       => LET task == tasks[i]
              n == Len(task.responses)
          IN /\ task.requests[1] = <<>>
             /\ \A k \in 2..Len(task.requests) :
                  task.requests[k] = <<task.responses[k - 1].nextMarker>>
             /\ \A k \in 1..(n - 1) : task.responses[k].nextMarker # ""
             /\ task.result = AllSegmentContainers(task.responses)
             /\ task.pc = "await" => Len(task.requests) = n + 1
             /\ (task.pc = "done" /\ task.out.status = "resolved")
                => /\ n >= 1 /\ task.responses[n].nextMarker = ""
                   /\ Len(task.requests) = n
                   /\ task.out.value = AllSegmentContainers(task.responses)
  /\ last.op = "listContainers"
     => /\ last.out.status = "resolved"
        /\ Len(last.out.value) = Cardinality(DOMAIN containers)
        /\ \A c \in DOMAIN containers :
             \E k \in 1..Len(last.out.value) :
               last.out.value[k] = BlobStorageContainer("InMemoryBlobStorage", c)

\* Three segments were walked and all their containers returned
C18_Witness ==
  /\ Len(tasks) = 1
  /\ tasks[1].op = "listContainers"
  /\ tasks[1].pc = "done"
  /\ Len(tasks[1].responses) = MaxSegments
  /\ tasks[1].out.status = "resolved"
  /\ Len(tasks[1].out.value) = 5

----------------------------------------------------------------------------
(* URLs of the cloud backend                                               *)
(*                                                                         *)
(* URLs are strings of code units, as all strings here.                    *)

QuestionMark == 63
StrPercent2F == <<37, 50, 70>>    \* "%2F"
StrPercent25 == <<37, 50, 53>>    \* "%25"
StrOrigin == <<115, 58, 47, 47, 104>>    \* "s://h"
StrQuery == <<113, 61>> \o StrPercent2F  \* "q=%2F"

StartsWith(value, prefix) ==
  Len(value) >= Len(prefix) /\ SubSeq(value, 1, Len(prefix)) = prefix

\* Whether searchValue occurs in value
Contains(value, searchValue) ==
  \E i \in 1..Len(value) : StartsWith(SubSeq(value, i, Len(value)), searchValue)

\* replaceAll(value, searchValue, replaceValue): every occurrence, left to right
RECURSIVE replaceAll(_, _, _)
replaceAll(value, searchValue, replaceValue) ==
  IF value = <<>> THEN <<>>
  ELSE IF StartsWith(value, searchValue)
    THEN replaceValue
         \o replaceAll(SubSeq(value, Len(searchValue) + 1, Len(value)),
                       searchValue, replaceValue)
  ELSE <<Head(value)>> \o replaceAll(Tail(value), searchValue, replaceValue)

\* URLBuilder.parse: scheme and host, path (from the first "/" after the
\* host), query (after the first "?", <<>> when there is none)
URLBuilder_parse(text) ==
  LET q == IndexOf(text, QuestionMark)
      beforeQuery == IF q = -1 THEN text ELSE Substring(text, 0, q)
      hostStart == Len(StrOrigin) - 1
      afterScheme == SubstringFrom(beforeQuery, hostStart)
      p == IndexOf(afterScheme, Slash)
  IN [origin |-> IF p = -1 THEN beforeQuery
                 ELSE Substring(beforeQuery, 0, hostStart + p),
      path |-> IF p = -1 THEN <<>> ELSE SubstringFrom(beforeQuery, hostStart + p),
      query |-> IF q = -1 THEN <<>> ELSE <<SubstringFrom(text, q + 1)>>]

\* URLBuilder.toString
URLBuilder_toString(builder) ==
  builder.origin \o builder.path
  \o (IF builder.query = <<>> THEN <<>> ELSE <<QuestionMark>> \o builder.query[1])

\* URLBuilder.setPath, URLBuilder.removeQuery
URLBuilder_setPath(builder, path) == [builder EXCEPT !.path = path]
URLBuilder_removeQuery(builder) == [builder EXCEPT !.query = <<>>]

\* encodeURIComponent, on the characters that names here are made of
RECURSIVE encodeURIComponent(_)
encodeURIComponent(name) ==
  IF name = <<>> THEN <<>>
  ELSE (IF Head(name) = Slash THEN StrPercent2F
        ELSE IF Head(name) = Head(StrPercent2F) THEN StrPercent25
        ELSE <<Head(name)>>)
       \o encodeURIComponent(Tail(name))

\* What the SDK does to build the URL of a child: the encoded name is
\* appended to the path of the parent's URL, the query kept
appendToURLPath(parentUrl, name) ==
  LET builder == URLBuilder_parse(parentUrl)
      path == builder.path
  IN URLBuilder_toString(URLBuilder_setPath(builder,
       IF path # <<>> /\ path[Len(path)] = Slash THEN path \o name
       ELSE path \o <<Slash>> \o name))

\* getAzureContainerURL(containerName).url
getAzureContainerURL(thisUrl, containerName) ==
  appendToURLPath(thisUrl, encodeURIComponent(containerName))

\* getBlockBlobURL(blobPath).url
getBlockBlobURL(thisUrl, blobPathArg) ==
  LET blobPath == BlobPathParse(blobPathArg)
  IN appendToURLPath(getAzureContainerURL(thisUrl, blobPath.containerName),
                     encodeURIComponent(blobPath.blobName))

\* GetURLOptions: <<>> when omitted, else <<[sasToken |-> <<>> or <<boolean>>]>>
GetURLOptions(sasToken) == <<[sasToken |-> sasToken]>>

\* options && !options.sasToken
WithoutSasToken(options) ==
  options # <<>> /\ ~(options[1].sasToken # <<>> /\ options[1].sasToken[1])

\* AzureBlobStorage.getURL
Azure_getURL(thisUrl, options) ==
  LET result == IF WithoutSasToken(options)
                  THEN URLBuilder_toString(URLBuilder_removeQuery(
                                             URLBuilder_parse(thisUrl)))
                ELSE thisUrl
  IN thisUrl

\* The tail of getContainerURL and getBlobURL, on the URL the SDK built
NormalizedURL(sdkUrl, options) ==
  LET parsed == URLBuilder_parse(sdkUrl)
      path == parsed.path
      decoded == IF path # <<>>
                   THEN URLBuilder_setPath(parsed,
                          replaceAll(path, StrPercent2F, <<Slash>>))
                 ELSE parsed
      stripped == IF WithoutSasToken(options) THEN URLBuilder_removeQuery(decoded)
                  ELSE decoded
  IN URLBuilder_toString(stripped)

\* getContainerURL and getBlobURL without the replaceAll on the path
NormalizedURL_PathAsIs(sdkUrl, options) ==
  LET parsed == URLBuilder_parse(sdkUrl)
      stripped == IF WithoutSasToken(options) THEN URLBuilder_removeQuery(parsed)
                  ELSE parsed
  IN URLBuilder_toString(stripped)

\* AzureBlobStorage.getContainerURL
Azure_getContainerURL(thisUrl, containerName, options) ==
  NormalizedURL(getAzureContainerURL(thisUrl, containerName), options)

\* getBlobURL that leaves the path as the SDK encoded it
Azure_getBlobURL_PathAsIs(thisUrl, blobPathArg, options) ==
  NormalizedURL_PathAsIs(getBlockBlobURL(thisUrl, blobPathArg), options)

\* AzureBlobStorage.getBlobURL
Azure_getBlobURL(thisUrl, blobPathArg, options) ==
  NormalizedURL(getBlockBlobURL(thisUrl, blobPathArg), options)

AccountUrlInputs ==
  { StrOrigin \o <<Slash>>,
    StrOrigin \o <<Slash, QuestionMark>> \o StrQuery,
    StrOrigin \o <<Slash>> \o StrX \o <<QuestionMark>> \o StrQuery,
    StrOrigin \o <<Slash>> \o StrX \o <<Slash, QuestionMark>> \o StrQuery }
GetURLOptionInputs ==
  {<<>>, GetURLOptions(<<>>), GetURLOptions(<<FALSE>>), GetURLOptions(<<TRUE>>)}
UrlNameInputs == {StrA, StrX}
UrlPathInputs ==
  { StrA \o <<Slash>> \o StrX,
    StrA \o <<Slash>> \o StrX \o <<Slash>> \o StrX,
    StrX \o <<Slash>> \o <<Head(StrPercent2F)>> \o StrA,
    StrX \o <<Slash, Slash>> }

\* A value returned by a synchronous call
Returned(type, v) == [status |-> "returned", type |-> type, value |-> v]

\* new AzureBlobStorage(storageAccountUrl)
NewAzureBlobStorage ==
  \E storageAccountUrl \in AccountUrlInputs :
    /\ url' = <<storageAccountUrl>>
    /\ lastCloud' = NoCloudCall
    /\ UNCHANGED <<github, exitCode, containers, objectFn, last, service, tasks>>

ReturnURL(op, target, options, result) ==
  /\ lastCloud' = [op |-> op, target |-> target, contents |-> <<>>,
                   option |-> options, faults |-> <<>>,
                   out |-> Returned("string", result)]
  /\ UNCHANGED <<github, exitCode, containers, objectFn, last, service, tasks, url>>

GetURL ==
  \E options \in GetURLOptionInputs :
    /\ url # <<>>
    /\ ReturnURL("getURL", <<>>, options, Azure_getURL(url[1], options))

GetContainerURL ==
  \E n \in UrlNameInputs, options \in GetURLOptionInputs :
    /\ url # <<>>
    /\ ReturnURL("getContainerURL", n, options,
                 Azure_getContainerURL(url[1], n, options))

GetBlobURL ==
  \E p \in UrlPathInputs, options \in GetURLOptionInputs :
    /\ url # <<>>
    /\ ReturnURL("getBlobURL", p, options,
                 Azure_getBlobURL(url[1], StringArg(p), options))

NextURL ==
  \/ NewAzureBlobStorage
  \/ GetURL
  \/ GetContainerURL
  \/ GetBlobURL

SpecURL == Init /\ [][NextURL]_vars

\* The part of a URL before its query, and its query (<<>> when it has none)
BeforeQuery(text) ==
  IF IndexOf(text, QuestionMark) = -1 THEN text
  ELSE Substring(text, 0, IndexOf(text, QuestionMark))
QueryOf(text) ==
  IF IndexOf(text, QuestionMark) = -1 THEN <<>>
  ELSE <<SubstringFrom(text, IndexOf(text, QuestionMark) + 1)>>

----------------------------------------------------------------------------
(* C19 *)

\* C19: cloud getURL with options whose sasToken is false returns the storage
\* account URL without its query string; with sasToken true or without
\* options it returns the configured URL, query string included.
C19_GetURL ==
  lastCloud.op = "getURL"
  => IF lastCloud.option # <<>> /\ lastCloud.option[1].sasToken = <<FALSE>>
       THEN lastCloud.out.value = BeforeQuery(url[1])
     ELSE (lastCloud.option = <<>> \/ lastCloud.option[1].sasToken = <<TRUE>>)
          => lastCloud.out.value = url[1]

----------------------------------------------------------------------------
(* C20 *)

\* C20: the URL that cloud getContainerURL and getBlobURL return has no "%2F"
\* in its path, which is the path of the SDK's URL with every "%2F" replaced
\* by "/"; it has no query string when options are given with sasToken false
\* or unset, and the query string of the account URL when options are omitted
\* or sasToken is true.
C20_ContainerAndBlobURL ==
  lastCloud.op \in {"getContainerURL", "getBlobURL"}
  => LET result == lastCloud.out.value
         sdkUrl == IF lastCloud.op = "getContainerURL"
                     THEN getAzureContainerURL(url[1], lastCloud.target)
                   ELSE getBlockBlobURL(url[1], StringArg(lastCloud.target))
     IN /\ ~Contains(BeforeQuery(result), StrPercent2F)
        /\ BeforeQuery(result)
             = replaceAll(BeforeQuery(sdkUrl), StrPercent2F, <<Slash>>)
        /\ QueryOf(result) =
             IF lastCloud.option # <<>> /\ lastCloud.option[1].sasToken # <<TRUE>>
               THEN <<>>
             ELSE QueryOf(url[1])

\* A blob name with a separator, under an account URL with a query that is kept
C20_Witness ==
  /\ lastCloud.op = "getBlobURL"
  /\ lastCloud.target = StrA \o <<Slash>> \o StrX \o <<Slash>> \o StrX
  /\ lastCloud.option = GetURLOptions(<<TRUE>>)
  /\ Contains(BeforeQuery(getBlockBlobURL(url[1], StringArg(lastCloud.target))),
              StrPercent2F)
  /\ QueryOf(lastCloud.out.value) = <<StrQuery>>
  /\ BeforeQuery(lastCloud.out.value)
       = StrOrigin \o <<Slash>> \o lastCloud.target

----------------------------------------------------------------------------
(* C21 *)

\* C21: getAzureContainerAccessPermissions maps private and an absent policy
\* to no value and maps blob and container to themselves, and on the cloud
\* backend a getContainerAccessPolicy(n) that follows a successful
\* setContainerAccessPolicy(n, q) returns q, for each of the three policies.
C21_AccessPolicyRoundTrip ==
  [][ /\ getAzureContainerAccessPermissions(<<>>) = <<>>
      /\ getAzureContainerAccessPermissions(<<"private">>) = <<>>
      /\ getAzureContainerAccessPermissions(<<"blob">>) = <<"blob">>
      /\ getAzureContainerAccessPermissions(<<"container">>) = <<"container">>
      /\ (lastCloud.op = "setContainerAccessPolicy"
          /\ lastCloud.out.status = "resolved"
          /\ lastCloud'.op = "getContainerAccessPolicy"
          /\ lastCloud'.target = lastCloud.target
          /\ NoFault(lastCloud'))
         => OutResolved(lastCloud'.out, "string", lastCloud.option[1])
    ]_vars

\* The policy container, which only setContainerAccessPolicy can have stored,
\* was read back
C21_Witness ==
  /\ lastCloud.op = "getContainerAccessPolicy"
  /\ NoFault(lastCloud)
  /\ OutResolved(lastCloud.out, "string", "container")
  /\ service[lastCloud.target].publicAccess = <<"container">>

----------------------------------------------------------------------------
(* Navigation wrappers: BlobStorageContainer, BlobStoragePrefix,          *)
(* BlobStorageBlob, here on the in-memory backend                          *)

\* new BlobStoragePrefix(storage, path), new BlobStorageBlob(storage, path)
BlobStoragePrefix(storage, path) == [storage |-> storage, path |-> BlobPathParse(path)]
BlobStorageBlob(storage, path) == [storage |-> storage, path |-> BlobPathParse(path)]

\* BlobStorage.getBlob, getPrefix, getContainer
Storage_getBlob(storage, blobPath) == BlobStorageBlob(storage, blobPath)
Storage_getPrefix(storage, prefix) == BlobStoragePrefix(storage, prefix)
Storage_getContainer(storage, containerName) ==
  BlobStorageContainer(storage, containerName)

\* BlobStorageContainer: the path of a blob name in this container
Container_blobPath(container, blobName) ==
  BlobPathArg(BlobPath(container.name, blobName))

\* BlobStoragePrefix.getContainer
Prefix_getContainer(prefix) ==
  Storage_getContainer(prefix.storage, prefix.path.containerName)

\* The child name of a prefix with a separator put before the suffix
Prefix_childName_WithSeparator(prefix, blobName) ==
  prefix.path.blobName \o <<Slash>> \o blobName

\* this.path.blobName + blobName
Prefix_childName(prefix, blobName) == prefix.path.blobName \o blobName

\* BlobStoragePrefix.getBlob and getPrefix, through BlobStorageContainer
Prefix_getBlob(prefix, blobName) ==
  Storage_getBlob(prefix.storage,
                  Container_blobPath(Prefix_getContainer(prefix),
                                     Prefix_childName(prefix, blobName)))
Prefix_getPrefix(prefix, path) ==
  Storage_getPrefix(prefix.storage,
                    Container_blobPath(Prefix_getContainer(prefix),
                                       Prefix_childName(prefix, path)))

\* BlobStoragePrefix operations, through BlobStorageContainer, on the store s
Prefix_createBlob(s, prefix, blobName) ==
  createBlob(s, Container_blobPath(Prefix_getContainer(prefix),
                                   Prefix_childName(prefix, blobName)), <<>>)
Prefix_blobExists(s, prefix, blobName) ==
  blobExists(s, Container_blobPath(Prefix_getContainer(prefix),
                                   Prefix_childName(prefix, blobName)))
Prefix_getBlobContentsAsString(s, prefix, blobName) ==
  getBlobContentsAsString(s, Container_blobPath(Prefix_getContainer(prefix),
                                                Prefix_childName(prefix, blobName)))
Prefix_setBlobContentsFromString(s, prefix, blobName, blobContents) ==
  setBlobContentsFromString(s, Container_blobPath(Prefix_getContainer(prefix),
                                                  Prefix_childName(prefix, blobName)),
                            blobContents, <<>>)
Prefix_deleteBlob(s, prefix, blobName) ==
  deleteBlob(s, Container_blobPath(Prefix_getContainer(prefix),
                                   Prefix_childName(prefix, blobName)))

\* Prefixes as storage.getPrefix(string) makes them, and suffixes
PrefixInputs ==
  { Storage_getPrefix("InMemoryBlobStorage", StringArg(StrA \o <<Slash>> \o StrX)),
    Storage_getPrefix("InMemoryBlobStorage", StringArg(StrA \o <<Slash>>)) }
SuffixInputs == {StrX, <<Slash>> \o StrX}

PrefixCall(prefix, name) == [prefix |-> prefix, name |-> name]

PrefixGetBlob ==
  \E prefix \in PrefixInputs, x \in SuffixInputs :
    Complete("prefix.getBlob", PrefixCall(prefix, x), <<>>, <<>>,
             [store |-> store,
              out |-> Returned("BlobStorageBlob", Prefix_getBlob(prefix, x))])

PrefixGetPrefix ==
  \E prefix \in PrefixInputs, x \in SuffixInputs :
    Complete("prefix.getPrefix", PrefixCall(prefix, x), <<>>, <<>>,
             [store |-> store,
              out |-> Returned("BlobStoragePrefix", Prefix_getPrefix(prefix, x))])

PrefixCreateBlob ==
  \E prefix \in PrefixInputs, x \in SuffixInputs :
    Complete("prefix.createBlob", PrefixCall(prefix, x), <<>>, <<>>,
             Prefix_createBlob(store, prefix, x))

PrefixBlobExists ==
  \E prefix \in PrefixInputs, x \in SuffixInputs :
    Complete("prefix.blobExists", PrefixCall(prefix, x), <<>>, <<>>,
             Prefix_blobExists(store, prefix, x))

PrefixGetBlobContentsAsString ==
  \E prefix \in PrefixInputs, x \in SuffixInputs :
    Complete("prefix.getBlobContentsAsString", PrefixCall(prefix, x), <<>>, <<>>,
             Prefix_getBlobContentsAsString(store, prefix, x))

PrefixSetBlobContentsFromString ==
  \E prefix \in PrefixInputs, x \in SuffixInputs :
    Complete("prefix.setBlobContentsFromString", PrefixCall(prefix, x),
             WellFormedContents, <<>>,
             Prefix_setBlobContentsFromString(store, prefix, x, WellFormedContents))

PrefixDeleteBlob ==
  \E prefix \in PrefixInputs, x \in SuffixInputs :
    Complete("prefix.deleteBlob", PrefixCall(prefix, x), <<>>, <<>>,
             Prefix_deleteBlob(store, prefix, x))

NextPrefix ==
  \/ CreateContainer
  \/ PrefixGetBlob
  \/ PrefixGetPrefix
  \/ PrefixCreateBlob
  \/ PrefixBlobExists
  \/ PrefixGetBlobContentsAsString
  \/ PrefixSetBlobContentsFromString
  \/ PrefixDeleteBlob

SpecPrefix == Init /\ [][NextPrefix]_vars

\* The backend operation `op` on blob path arg, called directly on the store s
DirectCall(s, op, arg, contents) ==
  CASE op = "prefix.createBlob" -> createBlob(s, arg, <<>>)
    [] op = "prefix.blobExists" -> blobExists(s, arg)
    [] op = "prefix.getBlobContentsAsString" -> getBlobContentsAsString(s, arg)
    [] op = "prefix.setBlobContentsFromString" ->
         setBlobContentsFromString(s, arg, contents, <<>>)
    [] op = "prefix.deleteBlob" -> deleteBlob(s, arg)

----------------------------------------------------------------------------
(* C22 *)

\* C22: an operation with suffix x on a prefix handle bound to container c and
\* segment s has the result and the effect of the backend operation on
\* BlobPath(c, s + x), nothing inserted between s and x; getBlob(x) is the
\* blob handle and getPrefix(x) the prefix handle of BlobPath(c, s + x).
C22_PrefixConcatenates ==
  [][ LET call == last'.target
          path == BlobPath(call.prefix.path.containerName,
                           call.prefix.path.blobName \o call.name)
      IN /\ last'.op \in {"prefix.getBlob", "prefix.getPrefix"}
            => /\ last'.out.value = [storage |-> call.prefix.storage, path |-> path]
               /\ UNCHANGED <<github, exitCode, containers, objectFn>>
         /\ last'.op \in {"prefix.createBlob", "prefix.blobExists",
                          "prefix.getBlobContentsAsString",
                          "prefix.setBlobContentsFromString", "prefix.deleteBlob"}
            => LET direct == DirectCall(store, last'.op, BlobPathArg(path),
                                        last'.contents)
               IN /\ last'.out = direct.out
                  /\ containers' = direct.store.containers
                  /\ objectFn' = direct.store.objectFn
    ]_vars

\* The prefix a/x wrote the blob xx of container a: no separator in between
C22_Witness ==
  /\ last.op = "prefix.setBlobContentsFromString"
  /\ last.target.prefix.path = BlobPath(StrA, StrX)
  /\ last.target.name = StrX
  /\ last.out = ResolvedVoid
  /\ BlobStored(containers, StrA, StrX \o StrX)
  /\ ~BlobStored(containers, StrA, StrX \o <<Slash>> \o StrX)

----------------------------------------------------------------------------
(* C23 *)

\* C23: in-memory setBlobContentsFromString(p, s, opts) on an existing
\* container resolves, and afterwards the container holds the blob with
\* exactly the bytes of s as its content and with opts.contentType as its
\* content type when that is given, application/octet-stream otherwise,
\* whether the blob existed before or not.
C23_SetReplacesContentAndType ==
  [][ (last'.op = "setBlobContentsFromString"
       /\ ContainerStored(containers, CallContainerName(last')))
      => /\ last'.out = ResolvedVoid
         /\ BlobStored(containers', CallContainerName(last'), CallBlobName(last'))
         /\ containers'[CallContainerName(last')].blobs[CallBlobName(last')]
              = [contents |-> BufferFromString(last'.contents),
                 contentType |-> IF last'.option # <<>> THEN last'.option
                                 ELSE <<DefaultContentType>>]
    ]_vars

----------------------------------------------------------------------------
(* Content and content type, the same calls made on both backends          *)

BothSetBlobContentType ==
  \E p \in ParityPathInputs, ct \in ContentTypeInputs :
    CompleteBoth("setBlobContentType", p, <<>>, <<ct>>,
                 setBlobContentType(store, StringArg(p), ct),
                 Azure_setBlobContentType(service, <<<<>>>>, StringArg(p), ct))

NextContentType ==
  \/ BothCreateContainer
  \/ BothSetBlobContentsFromString
  \/ BothSetBlobContentType

SpecContentType == Init /\ [][NextContentType]_vars

----------------------------------------------------------------------------
(* C24 *)

\* C24: setBlobContentType(p, t) on an existing blob resolves and changes only
\* the content type of that blob: a following getBlobContentType(p) returns t,
\* a following getBlobContentsAsString(p) returns what it returned before the
\* call, and nothing else in the backend changes; on the in-memory backend
\* and on the cloud backend.
C24_SetContentTypeOnly ==
  [][ last'.op = "setBlobContentType"
      => LET arg == StringArg(last'.target)
             c == CallContainerName(last')
             b == CallBlobName(last')
             ct == last'.option[1]
             after == Store(containers', objectFn')
         IN /\ BlobStored(containers, c, b)
               => /\ last'.out = ResolvedVoid
                  /\ getBlobContentType(after, arg).out = Resolved("string", ct)
                  /\ getBlobContentsAsString(after, arg).out
                       = getBlobContentsAsString(store, arg).out
                  /\ containers'
                       = [containers EXCEPT ![c].blobs[b].contentType = <<ct>>]
                  /\ objectFn' = objectFn
            /\ BlobMissing(service, BlobPath(c, b)) = <<>>
               => /\ lastCloud'.out = ResolvedVoid
                  /\ Azure_getBlobContentType(service', <<<<>>, <<>>>>, arg).out
                       = Resolved("string", ct)
                  /\ Azure_getBlobContentsAsString(service', <<<<>>>>, arg).out
                       = Azure_getBlobContentsAsString(service, <<<<>>>>, arg).out
                  /\ service' = [service EXCEPT ![c].blobs[b].contentType = <<ct>>]
    ]_vars

\* The content type of a blob with contents was set, on both backends
C24_Witness ==
  /\ last.op = "setBlobContentType"
  /\ last.out = ResolvedVoid
  /\ lastCloud.out = ResolvedVoid
  /\ BlobStored(containers, CallContainerName(last), CallBlobName(last))
  /\ containers[CallContainerName(last)].blobs[CallBlobName(last)]
       = [contents |-> BufferFromString(WellFormedContents),
          contentType |-> last.option]
  /\ service[CallContainerName(last)].blobs[CallBlobName(last)]
       = [contents |-> BufferFromString(WellFormedContents),
          contentType |-> last.option]

----------------------------------------------------------------------------
(* A write of a blob with concurrent reads, on InMemoryBlobStorage         *)

AtomicPathInputs == {StrA \o <<Slash>> \o StrX}
\* Two writes that differ in content and in content type
WriteInputs ==
  { [contents |-> WellFormedContents, option |-> <<"text/plain">>],
    [contents |-> StrX, option |-> <<>>] }

BlobTask(op, target, contents, option, pc, held) ==
  [op |-> op, target |-> target, contents |-> contents, option |-> option,
   pc |-> pc, held |-> held, out |-> ResolvedVoid]

\* setBlobContentsFromString: a .then callback that assigns the contents and
\* leaves the content type of an existing blob as it was
setBlobContentsFromString_then_ContentsOnly(s, c, blobName, blobContents, options) ==
  IF c.status = "rejected" THEN [store |-> s, out |-> c]
  ELSE IF c.value.kind = "Object"
    THEN [store |-> s, out |-> Rejected(TypeErrorOfUndefined)]
  ELSE LET blobs == s.containers[c.value.name].blobs
       IN IF blobName \in DOMAIN blobs
            THEN [store |-> WithBlobs(s, c.value.name,
                              [blobs EXCEPT ![blobName].contents =
                                              BufferFromString(blobContents)]),
                  out |-> ResolvedVoid]
          ELSE [store |-> WithBlobs(s, c.value.name,
                            PutProperty(blobs, blobName,
                              NewBlob(BufferFromString(blobContents), options))),
                out |-> ResolvedVoid]

\* setBlobContentsFromString: the .then callback, on the container the call
\* looked up
setBlobContentsFromString_then(s, c, blobName, blobContents, options) ==
  IF c.status = "rejected" THEN [store |-> s, out |-> c]
  ELSE IF c.value.kind = "Object"
    THEN [store |-> s, out |-> Rejected(TypeErrorOfUndefined)]
  ELSE LET blobs == s.containers[c.value.name].blobs
           written == NewBlob(BufferFromString(blobContents), options)
       IN IF blobName \in DOMAIN blobs \/ ~HasProperty(blobs, blobName)
            THEN [store |-> WithBlobs(s, c.value.name,
                                      PutProperty(blobs, blobName, written)),
                  out |-> ResolvedVoid]
          ELSE [store |-> Store(s.containers,
                                [s.objectFn EXCEPT
                                   !.contents = <<written.contents>>,
                                   !.contentType = written.contentType]),
                out |-> ResolvedVoid]

\* getInMemoryBlob: the .then callback, on the container the call looked up
getInMemoryBlob_then(s, c, blobName) ==
  IF c.status = "rejected" THEN c
  ELSE IF c.value.kind = "Object" THEN Rejected(TypeErrorOfUndefined)
  ELSE LET blobs == s.containers[c.value.name].blobs
       IN IF ~HasProperty(blobs, blobName) THEN Rejected(BlobNotFoundError)
          ELSE IF blobName \in DOMAIN blobs
            THEN Resolved("blob", [kind |-> "own", container |-> c.value.name,
                                   name |-> blobName])
          ELSE Resolved("blob", [kind |-> "Object", container |-> <<>>,
                                 name |-> <<>>])

\* getBlobContentsAsString: the .then callback, on the blob getInMemoryBlob gave
getBlobContentsAsString_then(s, b) ==
  IF b.status = "rejected" THEN b
  ELSE LET contents == IF b.value.kind = "own"
                         THEN <<s.containers[b.value.container]
                                  .blobs[b.value.name].contents>>
                       ELSE s.objectFn.contents
       IN IF contents = <<>> THEN Rejected(TypeErrorOfUndefined)
          ELSE Resolved("string", BufferToString(contents[1]))

\* getBlobContentType: the .then callback, on the blob getInMemoryBlob gave
getBlobContentType_then(s, b) ==
  IF b.status = "rejected" THEN b
  ELSE LET contentType ==
             IF b.value.kind = "own"
               THEN s.containers[b.value.container].blobs[b.value.name].contentType
             ELSE s.objectFn.contentType
       IN IF contentType = <<>> THEN ResolvedVoid
          ELSE Resolved("string", contentType[1])

\* A call is made: the path is parsed and the container looked up
CallSetBlobContentsFromString ==
  \E p \in AtomicPathInputs, w \in WriteInputs :
    /\ Len(tasks) < MaxCalls
    /\ tasks' = Append(tasks,
         BlobTask("setBlobContentsFromString", p, w.contents, w.option, "then",
                  getInMemoryContainer(store,
                    BlobPathParse(StringArg(p)).containerName)))
    /\ UNCHANGED <<github, exitCode, containers, objectFn, last, service, lastCloud, url>>

CallRead ==
  \E p \in AtomicPathInputs, op \in {"getBlobContentsAsString", "getBlobContentType"} :
    /\ Len(tasks) < MaxCalls
    /\ tasks' = Append(tasks,
         BlobTask(op, p, <<>>, <<>>, "blob",
                  getInMemoryContainer(store,
                    BlobPathParse(StringArg(p)).containerName)))
    /\ UNCHANGED <<github, exitCode, containers, objectFn, last, service, lastCloud, url>>

RunSetBlobContentsFromStringThen ==
  \E i \in 1..Len(tasks) :
    /\ tasks[i].op = "setBlobContentsFromString" /\ tasks[i].pc = "then"
    /\ LET r == setBlobContentsFromString_then(store, tasks[i].held,
                  BlobPathParse(StringArg(tasks[i].target)).blobName,
                  tasks[i].contents, tasks[i].option)
       IN /\ containers' = r.store.containers
          /\ objectFn' = r.store.objectFn
          /\ tasks' = [tasks EXCEPT ![i].pc = "done", ![i].out = r.out]
    /\ UNCHANGED <<github, exitCode, last, service, lastCloud, url>>

\* The callback inside getInMemoryBlob runs for a read
RunGetInMemoryBlobThen ==
  \E i \in 1..Len(tasks) :
    /\ tasks[i].op \in {"getBlobContentsAsString", "getBlobContentType"}
    /\ tasks[i].pc = "blob"
    /\ tasks' = [tasks EXCEPT
         ![i].pc = "then",
         ![i].held = getInMemoryBlob_then(store, tasks[i].held,
                       BlobPathParse(StringArg(tasks[i].target)).blobName)]
    /\ UNCHANGED <<github, exitCode, containers, objectFn, last, service, lastCloud, url>>

\* The callback of the read itself runs
RunReadThen ==
  \E i \in 1..Len(tasks) :
    /\ tasks[i].op \in {"getBlobContentsAsString", "getBlobContentType"}
    /\ tasks[i].pc = "then"
    /\ tasks' = [tasks EXCEPT
         ![i].pc = "done",
         ![i].out = IF tasks[i].op = "getBlobContentsAsString"
                      THEN getBlobContentsAsString_then(store, tasks[i].held)
                    ELSE getBlobContentType_then(store, tasks[i].held)]
    /\ UNCHANGED <<github, exitCode, containers, objectFn, last, service, lastCloud, url>>

\* createContainer on the container of the blob, completed before later calls
AtomicCreateContainer ==
  \E p \in AtomicPathInputs :
    LET name == BlobPathParse(StringArg(p)).containerName
    IN Complete("createContainer", name, <<>>, <<>>,
                createContainer(store, name, <<>>))

NextAtomic ==
  \/ AtomicCreateContainer
  \/ CallSetBlobContentsFromString
  \/ CallRead
  \/ RunSetBlobContentsFromStringThen
  \/ RunGetInMemoryBlobThen
  \/ RunReadThen

SpecAtomic == Init /\ [][NextAtomic]_vars

\* What a blob holds after one complete write
CompleteWrites ==
  {NewBlob(BufferFromString(w.contents), w.option) : w \in WriteInputs}

----------------------------------------------------------------------------
(* C25 *)

\* C25: under every interleaving of the callbacks of in-memory
\* setBlobContentsFromString, getBlobContentsAsString and getBlobContentType
\* calls on one blob, the blob always holds the content and the content type
\* of one and the same write, and a read of the existing blob returns the
\* content, or the content type, of one complete write.
C25_WritesAreAtomic ==
  /\ \A p \in AtomicPathInputs :
       LET path == BlobPathParse(StringArg(p))
       IN BlobStored(containers, path.containerName, path.blobName)
          => containers[path.containerName].blobs[path.blobName] \in CompleteWrites
  /\ \A i \in 1..Len(tasks) :
       (tasks[i].pc = "done" /\ tasks[i].out.status = "resolved")
       => /\ tasks[i].op = "getBlobContentsAsString"
             => \E w \in CompleteWrites : tasks[i].out.value = BufferToString(w.contents)
          /\ tasks[i].op = "getBlobContentType"
             => \E w \in CompleteWrites : <<tasks[i].out.value>> = w.contentType

\* A read that was called before a write ran returned what that write wrote
\* over the blob's earlier value
C25_Witness ==
  /\ Len(tasks) = 3
  /\ tasks[1].op = "setBlobContentsFromString" /\ tasks[1].pc = "done"
  /\ tasks[1].contents = WellFormedContents
  /\ tasks[2].op = "getBlobContentsAsString" /\ tasks[2].pc = "done"
  /\ tasks[3].op = "setBlobContentsFromString" /\ tasks[3].pc = "done"
  /\ tasks[3].contents = StrX
  /\ tasks[2].held.status = "resolved"
  /\ OutResolved(tasks[2].out, "string", StrX)

----------------------------------------------------------------------------
(* Requests of AzureBlobStorage in flight, and a caller who gives up       *)

MaxInFlight == 2

\* azure.Aborter.none, the aborter every request of AzureBlobStorage is given:
\* it never fires
AborterNone == "Aborter.none"

\* What a request answers when its aborter fires while it is in flight
AbortError == LocalError(<<"AbortError", ": ", "The request was aborted.">>)

AbortContainerOps == {"createContainer", "deleteContainer"}
AbortBlobOps == {"blobExists", "getBlobContentsAsString",
                 "setBlobContentsFromString", "createBlob", "deleteBlob"}

\* The operation as AzureBlobStorage runs it when nothing fails on the way
CloudOperation(svc, op, target) ==
  CASE op = "blobExists" -> Azure_blobExists(svc, <<<<>>>>, StringArg(target))
    [] op = "getBlobContentsAsString" ->
         Azure_getBlobContentsAsString(svc, <<<<>>>>, StringArg(target))
    [] op = "setBlobContentsFromString" ->
         Azure_setBlobContentsFromString(svc, <<<<>>>>, StringArg(target),
                                         WellFormedContents, <<>>)
    [] op = "createBlob" -> Azure_createBlob(svc, <<<<>>>>, StringArg(target), <<>>)
    [] op = "deleteBlob" -> Azure_deleteBlob(svc, <<<<>>>>, StringArg(target))
    [] op = "createContainer" -> Azure_createContainer(svc, <<<<>>>>, target, <<>>)
    [] op = "deleteContainer" -> Azure_deleteContainer(svc, <<<<>>>>, target)

\* A call: no parameter of the operation takes an abort signal, and the
\* request is sent with azure.Aborter.none
CloudRequest(op, target) ==
  [op |-> op, target |-> target, aborter |-> AborterNone, callerAborted |-> FALSE,
   pc |-> "inflight", out |-> ResolvedVoid]

\* The request is terminated when the aborter it was sent with has fired
RequestAborted(task) == task.aborter # AborterNone /\ task.callerAborted

SendRequest ==
  /\ Len(tasks) < MaxInFlight
  /\ \/ \E op \in AbortContainerOps, n \in CloudNameInputs :
          tasks' = Append(tasks, CloudRequest(op, n))
     \/ \E op \in AbortBlobOps, p \in CloudPathInputs :
          tasks' = Append(tasks, CloudRequest(op, p))
  /\ UNCHANGED <<github, exitCode, containers, objectFn, last, service, lastCloud, url>>

\* The caller gives the call up while its request is in flight
CallerAborts ==
  \E i \in 1..Len(tasks) :
    /\ tasks[i].pc = "inflight" /\ ~tasks[i].callerAborted
    /\ tasks' = [tasks EXCEPT ![i].callerAborted = TRUE]
    /\ UNCHANGED <<github, exitCode, containers, objectFn, last, service, lastCloud, url>>

\* The service handles the request and the promise of the call settles
ResponseArrives ==
  \E i \in 1..Len(tasks) :
    /\ tasks[i].pc = "inflight"
    /\ LET r == IF RequestAborted(tasks[i])
                  THEN [service |-> service, out |-> PromiseReject(AbortError)]
                ELSE CloudOperation(service, tasks[i].op, tasks[i].target)
       IN /\ service' = r.service
          /\ tasks' = [tasks EXCEPT ![i].pc = "done", ![i].out = r.out]
    /\ UNCHANGED <<github, exitCode, containers, objectFn, last, lastCloud, url>>

NextAbort == SendRequest \/ CallerAborts \/ ResponseArrives

SpecAbort == Init /\ [][NextAbort]_vars

----------------------------------------------------------------------------
(* C26 *)

\* C26: a call of a cloud operation that its caller aborted while the request
\* was in flight settles as a rejection with the cancellation error, never as
\* a success.
C26_AbortedCallFails ==
  \A i \in 1..Len(tasks) :
    (tasks[i].pc = "done" /\ tasks[i].callerAborted)
    => /\ tasks[i].out.status = "rejected"
       /\ tasks[i].out.value = AbortError.message

----------------------------------------------------------------------------
(* C27 *)

ErrorKinds == {"InvalidResourceName", "ContainerNotFound", "BlobNotFound"}

\* C27: after any sequence of in-memory operations, a rejected call carries a
\* message of the form "<ErrorKind>: <description>" whose kind is
\* InvalidResourceName, ContainerNotFound or BlobNotFound.
C27_FailuresAreClassified ==
  last.out.status = "rejected"
  => /\ Len(last.out.value) = 3
     /\ last.out.value[1] \in ErrorKinds
     /\ last.out.value[2] = ": "

----------------------------------------------------------------------------
(* FakeGitHub                                                               *)

\* The code units of the digits 0 and 9
Zero == 48
Nine == 57

\* Number.parseInt(text), for text without sign or leading blanks: the number
\* its leading decimal digits spell, <<>> for NaN
RECURSIVE ParseDigits(_, _)
ParseDigits(text, value) ==
  IF text = <<>> \/ Head(text) < Zero \/ Head(text) > Nine THEN value
  ELSE ParseDigits(Tail(text), value * 10 + (Head(text) - Zero))
Number_parseInt(text) ==
  IF text = <<>> \/ Head(text) < Zero \/ Head(text) > Nine THEN <<>>
  ELSE <<ParseDigits(text, 0)>>

\* Number.prototype.toString(), for NaN and the natural numbers
RECURSIVE Number_toString(_)
Number_toString(number) ==
  IF number = <<>> THEN <<78, 97, 78>>
  ELSE IF number[1] < 10 THEN <<Zero + number[1]>>
  ELSE Number_toString(<<number[1] \div 10>>) \o <<Zero + (number[1] % 10)>>

\* first(values, condition), on the indices whose values meet the condition:
\* the least of them, 0 for undefined
FirstIndex(indices) ==
  IF indices = {} THEN 0 ELSE CHOOSE i \in indices : \A j \in indices : i <= j

GitHubError(message, statusCode) == [statusCode |-> statusCode, message |-> message]

\* new FakeGitHubRepository(name, forkOf). A repository object is referred to
\* by its identity, id: forkOf is <<>> or the identity of the parent object,
\* and forks holds the identities of the fork objects
FakeGitHubRepository(id, name, forkOf) ==
  [id |-> id, name |-> name, forkOf |-> forkOf, labels |-> <<>>,
   milestones |-> <<>>, commits |-> <<>>, branches |-> <<>>,
   pullRequests |-> <<>>, forks |-> <<>>]

\* getRepositoryFullName, of a repository given as a string
getRepositoryFullName(repository) == repository

\* FakeGitHub.getRepository: the index of the repository in this.repositories
FakeGitHub_getRepository(gh, repository) ==
  LET repositoryFullName == getRepositoryFullName(repository)
      fakeRepository == FirstIndex({i \in 1..Len(gh.repositories) :
                                      gh.repositories[i].name = repositoryFullName})
  IN IF fakeRepository # 0 THEN Resolved("FakeGitHubRepository", fakeRepository)
     ELSE PromiseReject(GitHubError(
            <<"No fake repository exists with the name ", repositoryFullName>>, <<>>))

\* FakeGitHub.createRepositoryInner; forkOf is <<>> or <<full name>>.
\* gh.constructed counts the FakeGitHubRepository objects constructed so far
\* and numbers the new object.
FakeGitHub_createRepositoryInner(gh, repository, forkOf) ==
  LET repositoryFullName == getRepositoryFullName(repository)
      parent == IF forkOf = <<>> THEN FakeGitHub_getRepository(gh, repository)
                ELSE FakeGitHub_getRepository(gh, forkOf[1])
  IN IF FakeGitHub_getRepository(gh, repository).status = "resolved"
       THEN [github |-> gh,
             out |-> PromiseReject(GitHubError(
               <<"A fake repository already exists with the name ",
                 repositoryFullName>>, <<>>))]
     ELSE IF forkOf # <<>> /\ parent.status = "rejected"
       THEN [github |-> gh, out |-> parent]
     ELSE LET id == gh.constructed + 1
              forkOfRepository ==
                IF forkOf = <<>> THEN <<>> ELSE <<gh.repositories[parent.value].id>>
              repositories ==
                IF forkOf = <<>> THEN gh.repositories
                ELSE [gh.repositories EXCEPT ![parent.value].forks = Append(@, id)]
          IN [github |-> [gh EXCEPT
                            !.constructed = id,
                            !.repositories =
                              Append(repositories,
                                     FakeGitHubRepository(id, repositoryFullName,
                                                          forkOfRepository))],
              out |-> Resolved("FakeGitHubRepository", Len(gh.repositories) + 1)]

FakeGitHub_createRepository(gh, repository) ==
  FakeGitHub_createRepositoryInner(gh, repository, <<>>)

FakeGitHub_createCommit(gh, repository, commitId) ==
  LET r == FakeGitHub_getRepository(gh, repository)
  IN IF r.status = "rejected" THEN [github |-> gh, out |-> r]
     ELSE [github |-> [gh EXCEPT !.repositories[r.value].commits =
                         Append(@, commitId)],
           out |-> ResolvedVoid]

FakeGitHub_createBranch(gh, repository, branchName, branchSha) ==
  LET r == FakeGitHub_getRepository(gh, repository)
  IN IF r.status = "rejected" THEN [github |-> gh, out |-> r]
     ELSE LET fakeRepository == gh.repositories[r.value]
          IN IF \E i \in 1..Len(fakeRepository.branches) :
                  fakeRepository.branches[i] = branchName
               THEN [github |-> gh,
                     out |-> PromiseReject(GitHubError(
                       <<"Could not create a branch: exists ", branchName>>, <<>>))]
             ELSE IF ~\E i \in 1..Len(fakeRepository.commits) :
                        fakeRepository.commits[i] = branchSha
               THEN [github |-> gh,
                     out |-> PromiseReject(GitHubError(
                       <<"Could not create a branch: no commit ", branchSha>>, <<>>))]
             ELSE [github |-> [gh EXCEPT !.repositories[r.value].branches =
                                 Append(@, branchName)],
                   out |-> Resolved("GitHubBranch", branchName)]

FakeGitHub_getUser(gh, username) ==
  IF \E i \in 1..Len(gh.users) : gh.users[i] = username
    THEN Resolved("GitHubUser", username)
  ELSE PromiseReject(GitHubError(<<"No fake user exists with the username ", username>>,
                                 <<>>))

FakeGitHub_createUser(gh, username) ==
  IF FakeGitHub_getUser(gh, username).status = "resolved"
    THEN [github |-> gh,
          out |-> PromiseReject(GitHubError(
            <<"A fake user already exists with the username ", username>>, <<>>))]
  ELSE [github |-> [gh EXCEPT !.users = Append(@, username)],
        out |-> Resolved("GitHubUser", username)]

FakeGitHub_setCurrentUser(gh, username) ==
  LET user == FakeGitHub_getUser(gh, username)
  IN IF user.status = "rejected" THEN [github |-> gh, out |-> user]
     ELSE [github |-> [gh EXCEPT !.currentUser = <<user.value>>],
           out |-> ResolvedVoid]

FakeGitHub_getCurrentUser(gh) ==
  IF gh.currentUser # <<>> THEN Resolved("GitHubUser", gh.currentUser[1])
  ELSE PromiseReject(GitHubError(<<"No fake current user has been set.">>, <<>>))

\* FakeGitHub.createPullRequest and createFakePullRequest, for a head branch of
\* the repository itself (a branch name without ":")
FakeGitHub_createPullRequest(gh, repository, baseBranch, headBranch) ==
  LET r == FakeGitHub_getRepository(gh, repository)
  IN IF r.status = "rejected" THEN [github |-> gh, out |-> r]
     ELSE LET fakeRepository == gh.repositories[r.value]
              number == Len(fakeRepository.pullRequests) + 1
              HasBranch(name) == \E i \in 1..Len(fakeRepository.branches) :
                                   fakeRepository.branches[i] = name
          IN IF ~HasBranch(baseBranch)
               THEN [github |-> gh,
                     out |-> PromiseReject(GitHubError(
                       <<"No branch exists with the name ", baseBranch>>, <<>>))]
             ELSE IF ~HasBranch(headBranch)
               THEN [github |-> gh,
                     out |-> PromiseReject(GitHubError(
                       <<"No branch exists with the name ", headBranch>>, <<>>))]
             ELSE IF baseBranch = headBranch
               THEN [github |-> gh,
                     out |-> PromiseReject(GitHubError(
                       <<"The base label cannot be the same as the head label ",
                         baseBranch>>, <<>>))]
             ELSE IF \E i \in 1..Len(fakeRepository.pullRequests) :
                       fakeRepository.pullRequests[i].number = number
               THEN [github |-> gh,
                     out |-> PromiseReject(GitHubError(
                       <<"A pull request already exists with the number ", number>>,
                       <<>>))]
             ELSE [github |-> [gh EXCEPT !.repositories[r.value].pullRequests =
                                 Append(@, [number |-> number, labels |-> <<>>,
                                            state |-> "open",
                                            milestone |-> <<>>,
                                            comments |-> <<>>])],
                   out |-> Resolved("FakeGitHubPullRequest", number)]

\* FakeGitHub.getPullRequest: where the pull request is, as
\* [repository, pullRequest] indices
FakeGitHub_getPullRequest(gh, repository, pullRequestNumber) ==
  LET r == FakeGitHub_getRepository(gh, repository)
  IN IF r.status = "rejected" THEN r
     ELSE LET pullRequests == gh.repositories[r.value].pullRequests
              pullRequest == FirstIndex({i \in 1..Len(pullRequests) :
                                           pullRequests[i].number = pullRequestNumber})
          IN IF pullRequest # 0
               THEN Resolved("FakeGitHubPullRequest",
                             [repository |-> r.value, pullRequest |-> pullRequest])
             ELSE PromiseReject(GitHubError(
                    <<"No pull request found with number ", pullRequestNumber>>, <<>>))

CommentsOf(gh, ref) ==
  gh.repositories[ref.repository].pullRequests[ref.pullRequest].comments

FakeGitHub_createPullRequestComment(gh, repository, githubPullRequest, commentBody) ==
  LET p == FakeGitHub_getPullRequest(gh, repository, githubPullRequest)
      currentUser == FakeGitHub_getCurrentUser(gh)
  IN IF p.status = "rejected" THEN [github |-> gh, out |-> p]
     ELSE IF currentUser.status = "rejected" THEN [github |-> gh, out |-> currentUser]
     ELSE LET newComment == [id |-> Len(CommentsOf(gh, p.value)) + 1,
                             body |-> commentBody, etag |-> <<Zero + 1>>]
          IN [github |-> [gh EXCEPT !.repositories[p.value.repository]
                                     .pullRequests[p.value.pullRequest].comments =
                            Append(@, newComment)],
              out |-> Resolved("GitHubComment", newComment)]

\* updatePullRequestComment that overwrites whatever the etag
FakeGitHub_updatePullRequestComment_IgnoresEtag(gh, p, comment, commentBody, etag) ==
  IF p.status = "rejected" THEN [github |-> gh, out |-> p]
  ELSE LET comments == CommentsOf(gh, p.value)
           commentToUpdate == FirstIndex({i \in 1..Len(comments) :
                                            comments[i].id = comment})
       IN IF commentToUpdate = 0
            THEN [github |-> gh,
                  out |-> PromiseReject(GitHubError(
                    <<"No comment found with the ID ", comment>>, <<>>))]
          ELSE LET updated ==
                     [comments[commentToUpdate] EXCEPT
                        !.body = commentBody,
                        !.etag = Number_toString(
                                   IF Number_parseInt(@) = <<>> THEN <<>>
                                   ELSE <<Number_parseInt(@)[1] + 1>>)]
               IN [github |-> [gh EXCEPT !.repositories[p.value.repository]
                                          .pullRequests[p.value.pullRequest]
                                          .comments[commentToUpdate] = updated],
                   out |-> Resolved("GitHubComment", updated)]

\* FakeGitHub.updatePullRequestComment after its await, on the pull request p
\* whose comments the call looked up
FakeGitHub_updatePullRequestComment(gh, p, comment, commentBody, etag) ==
  IF p.status = "rejected" THEN [github |-> gh, out |-> p]
  ELSE LET comments == CommentsOf(gh, p.value)
           commentToUpdate == FirstIndex({i \in 1..Len(comments) :
                                            comments[i].id = comment})
       IN IF commentToUpdate = 0
            THEN [github |-> gh,
                  out |-> PromiseReject(GitHubError(
                    <<"No comment found with the ID ", comment>>, <<>>))]
          ELSE IF etag # <<>> /\ comments[commentToUpdate].etag # etag[1]
            THEN [github |-> gh,
                  out |-> PromiseReject(GitHubError(
                    <<"Can't update comment because the provided etag doesn't match ",
                      comment, etag[1]>>, <<412>>))]
          ELSE LET updated ==
                     [comments[commentToUpdate] EXCEPT
                        !.body = commentBody,
                        !.etag = Number_toString(
                                   IF Number_parseInt(@) = <<>> THEN <<>>
                                   ELSE <<Number_parseInt(@)[1] + 1>>)]
               IN [github |-> [gh EXCEPT !.repositories[p.value.repository]
                                          .pullRequests[p.value.pullRequest]
                                          .comments[commentToUpdate] = updated],
                   out |-> Resolved("GitHubComment", updated)]

MaxPullRequests == 1
MaxComments == 1
MaxUpdates == 2

RepositoryInputs == {"o/r"}
CommitInputs == {"sha"}
BranchInputs == {"master", "dev"}
UserInputs == {"u"}
PullRequestNumberInputs == {1}
CommentIdInputs == {1}
BodyInputs == {"b1", "b2"}
\* undefined and "1"
EtagInputs == {<<>>, <<<<Zero + 1>>>>}

\* Commit the result r of a FakeGitHub call that is awaited before the next
CompleteGitHub(op, target, option, r) ==
  /\ tasks = <<>>
  /\ github' = r.github
  /\ last' = [op |-> op, target |-> target, contents |-> <<>>, option |-> option,
              out |-> r.out]
  /\ UNCHANGED <<containers, objectFn, service, lastCloud, tasks, url, exitCode>>

GitHubCreateRepository ==
  \E r \in RepositoryInputs :
    CompleteGitHub("createRepository", r, <<>>, FakeGitHub_createRepository(github, r))

GitHubCreateCommit ==
  \E r \in RepositoryInputs, c \in CommitInputs :
    /\ \A i \in 1..Len(github.repositories) :
         Len(github.repositories[i].commits) < MaxPullRequests
    /\ CompleteGitHub("createCommit", r, <<c>>, FakeGitHub_createCommit(github, r, c))

GitHubCreateBranch ==
  \E r \in RepositoryInputs, b \in BranchInputs, c \in CommitInputs :
    CompleteGitHub("createBranch", r, <<b, c>>,
                   FakeGitHub_createBranch(github, r, b, c))

GitHubCreateUser ==
  \E u \in UserInputs :
    CompleteGitHub("createUser", u, <<>>, FakeGitHub_createUser(github, u))

GitHubSetCurrentUser ==
  \E u \in UserInputs :
    CompleteGitHub("setCurrentUser", u, <<>>, FakeGitHub_setCurrentUser(github, u))

GitHubCreatePullRequest ==
  \E r \in RepositoryInputs, base \in BranchInputs, head \in BranchInputs :
    /\ \A i \in 1..Len(github.repositories) :
         Len(github.repositories[i].pullRequests) < MaxPullRequests
    /\ CompleteGitHub("createPullRequest", r, <<base, head>>,
                      FakeGitHub_createPullRequest(github, r, base, head))

GitHubCreatePullRequestComment ==
  \E r \in RepositoryInputs, n \in PullRequestNumberInputs, b \in {"b0"} :
    /\ \A i \in 1..Len(github.repositories) :
         \A j \in 1..Len(github.repositories[i].pullRequests) :
           Len(github.repositories[i].pullRequests[j].comments) < MaxComments
    /\ CompleteGitHub("createPullRequestComment", [repository |-> r, pullRequest |-> n],
                      <<b>>, FakeGitHub_createPullRequestComment(github, r, n, b))

\* The etag a reader of the comment gets, <<>> when there is no such comment
CurrentEtag(gh, p, comment) ==
  IF p.status = "rejected" THEN <<>>
  ELSE LET comments == CommentsOf(gh, p.value)
           found == FirstIndex({i \in 1..Len(comments) : comments[i].id = comment})
       IN IF found = 0 THEN <<>> ELSE <<comments[found].etag>>

\* updatePullRequestComment is called: it runs up to its await
CallUpdatePullRequestComment ==
  \E r \in RepositoryInputs, n \in PullRequestNumberInputs, c \in CommentIdInputs,
     b \in BodyInputs, e \in EtagInputs :
    /\ Len(tasks) < MaxUpdates
    /\ LET p == FakeGitHub_getPullRequest(github, r, n)
       IN tasks' = Append(tasks,
            [op |-> "updatePullRequestComment", comment |-> c, body |-> b,
             etag |-> e, read |-> CurrentEtag(github, p, c), pc |-> "await",
             held |-> p, out |-> ResolvedVoid])
    /\ UNCHANGED <<containers, objectFn, last, service, lastCloud, url, github,
                   exitCode>>

\* updatePullRequestComment resumes after its await and runs to its end
ResumeUpdatePullRequestComment ==
  \E i \in 1..Len(tasks) :
    /\ tasks[i].op = "updatePullRequestComment" /\ tasks[i].pc = "await"
    /\ LET r == FakeGitHub_updatePullRequestComment(github, tasks[i].held,
                  tasks[i].comment, tasks[i].body, tasks[i].etag)
       IN /\ github' = r.github
          /\ tasks' = [tasks EXCEPT ![i].pc = "done", ![i].out = r.out]
    /\ UNCHANGED <<containers, objectFn, last, service, lastCloud, url, exitCode>>

NextComment ==
  \/ GitHubCreateRepository
  \/ GitHubCreateCommit
  \/ GitHubCreateBranch
  \/ GitHubCreateUser
  \/ GitHubSetCurrentUser
  \/ GitHubCreatePullRequest
  \/ GitHubCreatePullRequestComment
  \/ CallUpdatePullRequestComment
  \/ ResumeUpdatePullRequestComment

SpecComment == Init /\ [][NextComment]_vars

----------------------------------------------------------------------------
(* C28 *)

\* The task that a step of ResumeUpdatePullRequestComment finished
Resumed(i) == i \in 1..Len(tasks) /\ tasks[i].pc = "await" /\ tasks'[i].pc = "done"

\* Updaters that have succeeded on the comment
Succeeded(comment) ==
  {i \in 1..Len(tasks) : /\ tasks[i].comment = comment /\ tasks[i].pc = "done"
                         /\ tasks[i].out.status = "resolved"}

\* Two updaters of one comment that both read the etag e and both submitted
\* it, all updates of the comment being theirs
SameEtagUpdaters(i, j) ==
  /\ i # j
  /\ tasks[i].comment = tasks[j].comment
  /\ tasks[i].etag # <<>> /\ tasks[i].etag = tasks[j].etag
  /\ tasks[i].read = tasks[i].etag /\ tasks[j].read = tasks[j].etag
  /\ tasks[i].pc = "done" /\ tasks[j].pc = "done"
  /\ Succeeded(tasks[i].comment) \subseteq {i, j}

\* C28: FakeGitHub.updatePullRequestComment given an etag succeeds only when
\* the etag is the comment's current one, and otherwise rejects with status
\* code 412 and changes nothing; a successful update sets the body and makes
\* the etag the next number; of two updaters that read the same etag and both
\* submit it, exactly one succeeds, however their steps interleave.
C28_EtagGuardsUpdate ==
  [][ /\ \A i \in 1..Len(tasks) :
           (Resumed(i) /\ CurrentEtag(github, tasks[i].held, tasks[i].comment) # <<>>)
           => LET before == CurrentEtag(github, tasks[i].held, tasks[i].comment)[1]
                  comments == CommentsOf(github', tasks[i].held.value)
                  after == comments[FirstIndex({k \in 1..Len(comments) :
                                                  comments[k].id = tasks[i].comment})]
              IN IF tasks[i].etag # <<>> /\ tasks[i].etag[1] # before
                   THEN /\ tasks'[i].out.status = "rejected"
                        /\ tasks'[i].out.statusCode = <<412>>
                        /\ github' = github
                 ELSE /\ tasks'[i].out.status = "resolved"
                      /\ after.body = tasks[i].body
                      /\ Number_parseInt(after.etag) = <<Number_parseInt(before)[1] + 1>>
                      /\ after.etag = Number_toString(Number_parseInt(after.etag))
      /\ \A i, j \in 1..Len(tasks') :
           SameEtagUpdaters(i, j)'
           => Cardinality(Succeeded(tasks[i].comment)') = 1
    ]_vars

\* Two updaters read etag "1" of the comment and submitted it; the first to
\* resume succeeded and the other was rejected with 412
C28_Witness ==
  /\ Len(tasks) = 2
  /\ SameEtagUpdaters(1, 2)
  /\ tasks[1].body # tasks[2].body
  /\ tasks[2].out.status = "resolved"
  /\ tasks[1].out.status = "rejected" /\ tasks[1].out.statusCode = <<412>>
  /\ CurrentEtag(github, tasks[1].held, tasks[1].comment) = <<<<Zero + 2>>>>

----------------------------------------------------------------------------
(* FakeGitHub: the labels of a pull request                                 *)

GitHubLabel(name, color) == [name |-> name, color |-> color]

\* map(labels, label => label.name)
LabelNames(labels) == [i \in 1..Len(labels) |-> labels[i].name]

\* contains(values, value)
SeqContains(values, value) == \E i \in 1..Len(values) : values[i] = value

\* Array.isArray(labelNames) ? labelNames : [labelNames]
LabelNamesArray(labelNames) ==
  IF labelNames.type = "array" THEN labelNames.value ELSE <<labelNames.value>>

\* The loop of addPullRequestLabels over the requested names: a name that no
\* label of the repository has is created with createLabel, which pushes the
\* label onto the labels of the repository, and the label is then pushed onto
\* repositoryLabels, the same array; a rejection of createLabel ends the loop
RECURSIVE CreateMissingLabels(_, _)
CreateMissingLabels(repositoryLabels, labelNames) ==
  IF labelNames = <<>> THEN [labels |-> repositoryLabels, error |-> <<>>]
  ELSE LET labelName == Head(labelNames)
       IN IF SeqContains(LabelNames(repositoryLabels), labelName)
            THEN CreateMissingLabels(repositoryLabels, Tail(labelNames))
          ELSE IF labelName = ""
            THEN [labels |-> repositoryLabels,
                  error |-> <<GitHubError(<<"labelName cannot be undefined or empty.">>,
                                          <<>>)>>]
          ELSE CreateMissingLabels(
                 repositoryLabels \o <<GitHubLabel(labelName, "ededed"),
                                       GitHubLabel(labelName, "ededed")>>,
                 Tail(labelNames))

\* FakeGitHub.getLabel, on the labels of the repository
GetLabel(repositoryLabels, label) ==
  repositoryLabels[FirstIndex({i \in 1..Len(repositoryLabels) :
                                 repositoryLabels[i].name = label})]

\* FakeGitHub.addPullRequestLabels
FakeGitHub_addPullRequestLabels(gh, repository, githubPullRequest, labelNames) ==
  LET r == FakeGitHub_getRepository(gh, repository)
  IN IF r.status = "rejected" THEN [github |-> gh, out |-> r]
     ELSE
       LET created == CreateMissingLabels(gh.repositories[r.value].labels,
                                          LabelNamesArray(labelNames))
           gh2 == [gh EXCEPT !.repositories[r.value].labels = created.labels]
           p == FakeGitHub_getPullRequest(gh2, repository, githubPullRequest)
       IN IF created.error # <<>>
            THEN [github |-> gh2, out |-> PromiseReject(created.error[1])]
          ELSE IF p.status = "rejected" THEN [github |-> gh2, out |-> p]
          ELSE
            LET pullRequestLabels ==
                  gh2.repositories[r.value].pullRequests[p.value.pullRequest].labels
                NotOnPullRequest(labelName) ==
                  ~SeqContains(LabelNames(pullRequestLabels), labelName)
                labelNamesAddedToPullRequest ==
                  SelectSeq(LabelNamesArray(labelNames), NotOnPullRequest)
            IN [github |-> [gh2 EXCEPT
                  !.repositories[r.value].pullRequests[p.value.pullRequest].labels =
                    @ \o [i \in 1..Len(labelNamesAddedToPullRequest) |->
                            GetLabel(created.labels, labelNamesAddedToPullRequest[i])]],
                out |-> Resolved("string[]", labelNamesAddedToPullRequest)]

\* FakeGitHub.removePullRequestLabels
FakeGitHub_removePullRequestLabels(gh, repository, githubPullRequest, labelNames) ==
  LET p == FakeGitHub_getPullRequest(gh, repository, githubPullRequest)
  IN IF p.status = "rejected" THEN [github |-> gh, out |-> p]
     ELSE
       LET pullRequest ==
             gh.repositories[p.value.repository].pullRequests[p.value.pullRequest]
           labelNamesToRemove == LabelNamesArray(labelNames)
           Requested(labelName) == SeqContains(labelNamesToRemove, labelName)
           Kept(label) == ~SeqContains(labelNamesToRemove, label.name)
       IN [github |-> [gh EXCEPT
             !.repositories[p.value.repository].pullRequests[p.value.pullRequest]
              .labels = SelectSeq(pullRequest.labels, Kept)],
           out |-> Resolved("string[]",
                            SelectSeq(LabelNames(pullRequest.labels), Requested))]

LabelNamesInputs ==
  { [type |-> "string", value |-> "a"], [type |-> "string", value |-> ""],
    [type |-> "array", value |-> <<>>], [type |-> "array", value |-> <<"b">>],
    [type |-> "array", value |-> <<"a", "b">>],
    [type |-> "array", value |-> <<"a", "a">>] }

GitHubAddPullRequestLabels ==
  \E r \in RepositoryInputs, n \in PullRequestNumberInputs, l \in LabelNamesInputs :
    CompleteGitHub("addPullRequestLabels", [repository |-> r, pullRequest |-> n], <<l>>,
                   FakeGitHub_addPullRequestLabels(github, r, n, l))

GitHubRemovePullRequestLabels ==
  \E r \in RepositoryInputs, n \in PullRequestNumberInputs, l \in LabelNamesInputs :
    CompleteGitHub("removePullRequestLabels", [repository |-> r, pullRequest |-> n], <<l>>,
                   FakeGitHub_removePullRequestLabels(github, r, n, l))

NextLabels ==
  \/ GitHubCreateRepository
  \/ GitHubCreateCommit
  \/ GitHubCreateBranch
  \/ GitHubCreatePullRequest
  \/ GitHubAddPullRequestLabels
  \/ GitHubRemovePullRequestLabels

SpecLabels == Init /\ [][NextLabels]_vars

\* The names of the labels on the pull request of a call, in gh
PullRequestLabelNames(gh, call) ==
  LET p == FakeGitHub_getPullRequest(gh, call.target.repository,
                                     call.target.pullRequest)
  IN LabelNames(gh.repositories[p.value.repository]
                  .pullRequests[p.value.pullRequest].labels)

Occurrences(values, value) == Cardinality({i \in 1..Len(values) : values[i] = value})
Elements(values) == {values[i] : i \in 1..Len(values)}

----------------------------------------------------------------------------
(* C30 *)

\* C30: a resolved FakeGitHub.addPullRequestLabels returns the requested names
\* that were not on the pull request, each once, and afterwards every
\* requested name is on the pull request exactly once; a resolved
\* removePullRequestLabels returns the names on the pull request that were
\* requested, and afterwards the pull request has none of the requested labels
\* and keeps all the others.
C30_LabelsAddedAndRemoved ==
  [][ LET requested == LabelNamesArray(last'.option[1])
          before == PullRequestLabelNames(github, last')
          after == PullRequestLabelNames(github', last')
          returned == last'.out.value
          IsRequested(labelName) == SeqContains(requested, labelName)
          NotRequested(labelName) == ~SeqContains(requested, labelName)
      IN /\ (last'.op = "addPullRequestLabels" /\ last'.out.status = "resolved")
            => /\ Elements(returned) = Elements(requested) \ Elements(before)
               /\ \A n \in Elements(returned) : Occurrences(returned, n) = 1
               /\ \A n \in Elements(requested) : Occurrences(after, n) = 1
         /\ (last'.op = "removePullRequestLabels" /\ last'.out.status = "resolved")
            => /\ returned = SelectSeq(before, IsRequested)
               /\ after = SelectSeq(before, NotRequested)
    ]_vars

----------------------------------------------------------------------------
(* checkForOnlyCalls                                                        *)

MaxFiles == 2

LineFeed == 10
CarriageReturn == 13

\* ".only(", ".ts" and ".js"
StrDotOnly == <<46, 111, 110, 108, 121, 40>>
StrDotTs == <<46, 116, 115>>
StrDotJs == <<46, 106, 115>>

\* String.prototype.endsWith
EndsWith(value, suffix) ==
  Len(value) >= Len(suffix)
  /\ SubSeq(value, Len(value) - Len(suffix) + 1, Len(value)) = suffix

\* text.split(/\r?\n/): the lines of text, line being the one under way
RECURSIVE Split(_, _)
Split(text, line) ==
  IF text = <<>> THEN <<line>>
  ELSE IF Head(text) = LineFeed THEN <<line>> \o Split(Tail(text), <<>>)
  ELSE IF Head(text) = CarriageReturn /\ Len(text) >= 2 /\ text[2] = LineFeed
    THEN <<line>> \o Split(Tail(Tail(text)), <<>>)
  ELSE Split(Tail(text), Append(line, Head(text)))

\* getLines
getLines(text) == IF text = <<>> THEN <<>> ELSE Split(text, <<>>)

\* A file of the file system: the folders on the way to it from the root, its
\* name and its contents
File(folders, name, contents) ==
  [folders |-> folders, name |-> name, contents |-> contents]

IsPrefix(prefix, value) ==
  Len(prefix) <= Len(value) /\ SubSeq(value, 1, Len(prefix)) = prefix

\* getChildFilePaths(startPath, {recursive: true, folderCondition,
\* fileCondition}), as the indices of the files found: the files under
\* startPath that are reached through folders not named node_modules and whose
\* path ends with ".ts" or ".js"; <<>> for undefined when startPath holds no file
getChildFilePaths(files, startPath) ==
  LET under == {i \in 1..Len(files) : IsPrefix(startPath, files[i].folders)}
      found == {i \in under :
                  /\ \A k \in (Len(startPath) + 1)..Len(files[i].folders) :
                       files[i].folders[k] # "node_modules"
                  /\ \/ EndsWith(files[i].name, StrDotTs)
                     \/ EndsWith(files[i].name, StrDotJs)}
  IN IF under = {} THEN <<>> ELSE <<found>>

\* The lines of a file that hold ".only(": onlyLines.length
OnlyLineCount(contents) ==
  LET sourceFileLines == getLines(contents)
  IN Cardinality({i \in 1..Len(sourceFileLines) :
                    Contains(sourceFileLines[i], StrDotOnly)})

RECURSIVE SumOnlyLines(_, _)
SumOnlyLines(files, indices) ==
  IF indices = {} THEN 0
  ELSE LET i == CHOOSE i \in indices : TRUE
       IN OnlyLineCount(files[i].contents) + SumOnlyLines(files, indices \ {i})

\* options.startPaths as an array: the working directory, the root here, when
\* none is given
StartPathArray(startPaths) ==
  IF startPaths.type = "undefined" THEN << <<>> >>
  ELSE IF startPaths.type = "string" THEN <<startPaths.value>>
  ELSE startPaths.value

\* checkForOnlyCalls: the exit code it returns
RECURSIVE checkForOnlyCalls_from(_, _, _)
checkForOnlyCalls_from(files, startPathArray, exit) ==
  IF startPathArray = <<>> THEN exit
  ELSE LET sourceFilePaths == getChildFilePaths(files, Head(startPathArray))
       IN checkForOnlyCalls_from(files, Tail(startPathArray),
            IF sourceFilePaths = <<>> THEN exit
            ELSE exit + SumOnlyLines(files, sourceFilePaths[1]))

checkForOnlyCalls(files, startPaths) ==
  checkForOnlyCalls_from(files, StartPathArray(startPaths), 0)

FolderInputs == {<<>>, <<"sub">>, <<"node_modules">>}
\* "a.ts", "b.js" and "c.md"
FileNameInputs == {<<97>> \o StrDotTs, <<98>> \o StrDotJs, <<99, 46, 109, 100>>}
\* nothing; "x"; one call; two calls on two lines; a call on the second line
FileContentsInputs ==
  { <<>>, StrX, StrDotOnly, StrDotOnly \o <<LineFeed>> \o StrDotOnly,
    StrX \o <<CarriageReturn, LineFeed>> \o StrX \o StrDotOnly }
FileInputs ==
  {File(d, n, c) : d \in FolderInputs, n \in FileNameInputs, c \in FileContentsInputs}
StartPathsInputs ==
  { [type |-> "undefined", value |-> <<>>],
    [type |-> "string", value |-> <<"sub">>],
    [type |-> "array", value |-> << <<>>, <<"sub">> >>] }

\* File systems of up to MaxFiles files, no two at one path
FileSystems ==
  {files \in UNION {[1..k -> FileInputs] : k \in 0..MaxFiles} :
     \A i, j \in 1..Len(files) :
       (i # j) => <<files[i].folders, files[i].name>> # <<files[j].folders, files[j].name>>}

\* One run of the check in a process: what it returns depends on nothing but
\* the files and the start paths
CheckForOnlyCalls ==
  \E files \in FileSystems, startPaths \in StartPathsInputs :
    LET result == checkForOnlyCalls(files, startPaths)
    IN /\ exitCode = <<>>
       /\ last' = [op |-> "checkForOnlyCalls", target |-> files, contents |-> <<>>,
                   option |-> <<startPaths>>, out |-> Returned("number", result)]
       /\ exitCode' = <<result>>
       /\ UNCHANGED <<containers, objectFn, service, lastCloud, tasks, url, github>>

NextOnly == CheckForOnlyCalls

SpecOnly == Init /\ [][NextOnly]_vars

----------------------------------------------------------------------------
(* C29 *)

\* The source files under the start paths that hold at least one ".only("
FilesWithOnlyCalls(files, startPaths) ==
  {i \in 1..Len(files) :
     /\ \E k \in 1..Len(StartPathArray(startPaths)) :
          LET found == getChildFilePaths(files, StartPathArray(startPaths)[k])
          IN found # <<>> /\ i \in found[1]
     /\ Contains(files[i].contents, StrDotOnly)}

\* C29: checkForOnlyCalls returns the number of source files (.ts or .js,
\* outside node_modules) under the start paths that hold at least one
\* ".only(" call, 0 when there is none, and process.exitCode is set to the
\* number returned.
C29_CountsFilesWithOnlyCalls ==
  last.op = "checkForOnlyCalls"
  => /\ last.out.value =
          Cardinality(FilesWithOnlyCalls(last.target, last.option[1]))
     /\ exitCode = <<last.out.value>>

----------------------------------------------------------------------------
(* C31 *)

\* C31: on a backend that has stored nothing, containerExists(n) resolves
\* false and createContainer(n) resolves true for every valid name n; in a
\* stored container without blobs, blobExists resolves false and createBlob
\* resolves true for every blob name: names that Object.prototype has, such
\* as "constructor", are no exception.
C31_ExistenceIsWhatWasStored ==
  [][ /\ (/\ containers = EmptyObject /\ objectFn = FreshObjectFn
          /\ ValidName(last'.target))
         => /\ last'.op = "containerExists"
               => OutResolved(last'.out, "boolean", FALSE)
            /\ last'.op = "createContainer"
               => OutResolved(last'.out, "boolean", TRUE)
      /\ (/\ last'.op \in {"blobExists", "createBlob"}
          /\ ContainerStored(containers, CallContainerName(last'))
          /\ containers[CallContainerName(last')].blobs = EmptyObject)
         => /\ last'.op = "blobExists"
               => OutResolved(last'.out, "boolean", FALSE)
            /\ last'.op = "createBlob"
               => OutResolved(last'.out, "boolean", TRUE)
    ]_vars

----------------------------------------------------------------------------
(* C32 *)

\* C32: an in-memory call that rejects with InvalidResourceName,
\* ContainerNotFound or BlobNotFound, or that resolves false, leaves the
\* store as it was: the containers, their access policies, their blobs and
\* every blob's content and content type.
C32_FailureChangesNothing ==
  [][ (\/ \E kind \in ErrorKinds : OutRejected(last'.out, kind)
       \/ OutResolved(last'.out, "boolean", FALSE))
      => /\ containers' = containers
         /\ objectFn' = objectFn ]_vars

\* createContainer resolved false for a stored container that holds a blob
C32_Witness ==
  /\ last.op = "createContainer"
  /\ OutResolved(last.out, "boolean", FALSE)
  /\ ContainerStored(containers, last.target)
  /\ containers[last.target].blobs # EmptyObject

----------------------------------------------------------------------------
(* C33 *)

\* Every container but c, and every blob of c but b, with the access policies
BlobsBut(cs, c, b) ==
  [n \in DOMAIN cs |->
     [name |-> cs[n].name, accessPolicy |-> cs[n].accessPolicy,
      blobs |-> [k \in (DOMAIN cs[n].blobs) \ (IF n = c THEN {b} ELSE {}) |->
                   cs[n].blobs[k]]]]

\* C33: createBlob, setBlobContentsFromString, setBlobContentType and
\* deleteBlob on path c/b change nothing but blob b of container c: the other
\* blobs, the set of containers, the access policies and whatever else the
\* backend can reach stay as they were; setContainerAccessPolicy changes no
\* blob.
C33_BlobOperationsAreLocal ==
  [][ /\ last'.op \in {"createBlob", "setBlobContentsFromString",
                       "setBlobContentType", "deleteBlob"}
         => /\ BlobsBut(containers', CallContainerName(last'), CallBlobName(last'))
               = BlobsBut(containers, CallContainerName(last'), CallBlobName(last'))
            /\ objectFn' = objectFn
      /\ last'.op = "setContainerAccessPolicy"
         => /\ \A n \in DOMAIN containers :
                 /\ n \in DOMAIN containers'
                 /\ containers'[n].blobs = containers[n].blobs
            /\ DOMAIN containers' = DOMAIN containers
            /\ objectFn'.contents = objectFn.contents
            /\ objectFn'.contentType = objectFn.contentType
    ]_vars

----------------------------------------------------------------------------
(* C34 *)

\* C34: an in-memory blob operation given a path string with no separator
\* parses it to an empty container name and rejects with InvalidResourceName,
\* and no container or blob is created, read or modified.
C34_PathWithoutSeparatorIsRejected ==
  [][ (/\ last'.op \in BlobOps
       /\ ~Contains(last'.target, <<Slash>>))
      => /\ CallContainerName(last') = <<>>
         /\ OutRejected(last'.out, "InvalidResourceName")
         /\ containers' = containers
         /\ objectFn' = objectFn ]_vars

C34_Witness ==
  /\ last.op = "blobExists"
  /\ last.target = StrX
  /\ OutRejected(last.out, "InvalidResourceName")
  /\ containers # EmptyObject

----------------------------------------------------------------------------
(* C37 *)

\* C37: addPullRequestLabels adds each requested name that the repository
\* lacks to the labels of the repository exactly once and never a name the
\* repository has: the label names of every repository stay pairwise distinct.
C37_RepositoryLabelNamesAreDistinct ==
  \A r \in 1..Len(github.repositories) :
    LET names == LabelNames(github.repositories[r].labels)
    IN \A n \in Elements(names) : Occurrences(names, n) = 1

----------------------------------------------------------------------------
(* Comments of a pull request, created, updated and deleted one call at a time *)

\* The most comments a pull request gets
MaxCommentsPerPullRequest == 2

\* deletePullRequestComment
FakeGitHub_deletePullRequestComment(gh, repository, githubPullRequest, comment) ==
  LET p == FakeGitHub_getPullRequest(gh, repository, githubPullRequest)
  IN IF p.status = "rejected" THEN [github |-> gh, out |-> p]
     ELSE LET comments == CommentsOf(gh, p.value)
              OtherId(existingComment) == existingComment.id # comment
          IN IF ~\E i \in 1..Len(comments) : comments[i].id = comment
               THEN [github |-> gh,
                     out |-> PromiseReject(GitHubError(
                       <<"No comment was found with the id ", comment>>, <<>>))]
             ELSE [github |-> [gh EXCEPT !.repositories[p.value.repository]
                                        .pullRequests[p.value.pullRequest].comments =
                                 SelectSeq(comments, OtherId)],
                   out |-> ResolvedVoid]

CommentCreate ==
  \E r \in RepositoryInputs, n \in PullRequestNumberInputs :
    /\ \A i \in 1..Len(github.repositories) :
         \A j \in 1..Len(github.repositories[i].pullRequests) :
           Len(github.repositories[i].pullRequests[j].comments)
             < MaxCommentsPerPullRequest
    /\ CompleteGitHub("createPullRequestComment", [repository |-> r, pullRequest |-> n],
                      <<"b0">>, FakeGitHub_createPullRequestComment(github, r, n, "b0"))

\* updatePullRequestComment without an etag, the call and its continuation
\* with nothing in between
CommentUpdate ==
  \E r \in RepositoryInputs, n \in PullRequestNumberInputs, c \in CommentIdInputs :
    LET p == FakeGitHub_getPullRequest(github, r, n)
        etag == CurrentEtag(github, p, c)
    IN /\ etag # <<>> => Number_parseInt(etag[1])[1] <= MaxUpdates
       /\ CompleteGitHub("updatePullRequestComment",
                         [repository |-> r, pullRequest |-> n], <<c>>,
                         FakeGitHub_updatePullRequestComment(github, p, c, "b1", <<>>))

CommentDelete ==
  \E r \in RepositoryInputs, n \in PullRequestNumberInputs, c \in CommentIdInputs :
    CompleteGitHub("deletePullRequestComment", [repository |-> r, pullRequest |-> n],
                   <<c>>, FakeGitHub_deletePullRequestComment(github, r, n, c))

NextCommentIds ==
  \/ GitHubCreateRepository
  \/ GitHubCreateCommit
  \/ GitHubCreateBranch
  \/ GitHubCreateUser
  \/ GitHubSetCurrentUser
  \/ GitHubCreatePullRequest
  \/ CommentCreate
  \/ CommentUpdate
  \/ CommentDelete

SpecCommentIds == Init /\ [][NextCommentIds]_vars

----------------------------------------------------------------------------
(* C35 *)

\* C35: after any sequence of createPullRequestComment,
\* updatePullRequestComment and deletePullRequestComment calls the ids of the
\* comments on a pull request are pairwise distinct, so that an id addresses
\* exactly one comment.
C35_CommentIdsAreDistinct ==
  \A r \in 1..Len(github.repositories) :
    \A p \in 1..Len(github.repositories[r].pullRequests) :
      LET comments == github.repositories[r].pullRequests[p].comments
      IN \A i, j \in 1..Len(comments) : comments[i].id = comments[j].id => i = j

----------------------------------------------------------------------------
(* FakeGitHub: repositories created, forked and deleted                    *)

\* The most FakeGitHubRepository objects constructed in a run
MaxRepositoryObjects == 3

Backslash == 92

\* getGitHubRepository, of a repository given as a string of code units
getGitHubRepository(repository) ==
  IF repository = <<>> THEN [name |-> repository, organization |-> <<>>]
  ELSE LET slashIndex == IF IndexOf(repository, Slash) = -1
                           THEN IndexOf(repository, Backslash)
                         ELSE IndexOf(repository, Slash)
       IN [name |-> SubstringFrom(repository, slashIndex + 1),
           organization |-> IF slashIndex = -1 THEN <<>>
                            ELSE Substring(repository, 0, slashIndex)]

\* getRepositoryFullName, of a repository given as a GitHubRepository object
GitHubRepository_getRepositoryFullName(repository) ==
  IF repository.organization = <<>> THEN repository.name
  ELSE repository.organization \o <<Slash>> \o repository.name

\* forkRepository
FakeGitHub_forkRepository(gh, repositoryArg, forkedRepositoryOwner) ==
  LET repository == getGitHubRepository(repositoryArg)
      forkedRepository == [organization |-> forkedRepositoryOwner,
                           name |-> repository.name]
  IN FakeGitHub_createRepositoryInner(
       gh, GitHubRepository_getRepositoryFullName(forkedRepository),
       <<GitHubRepository_getRepositoryFullName(repository)>>)

\* removeFirst(values, condition), for the indices that meet the condition
RemoveFirst(values, indices) ==
  IF indices = {} THEN values
  ELSE LET removed == FirstIndex(indices)
       IN SubSeq(values, 1, removed - 1) \o SubSeq(values, removed + 1, Len(values))

\* deleteRepository. The parent object of the deleted repository loses it as
\* a fork; a parent that is no longer in this.repositories is out of reach of
\* every later call.
FakeGitHub_deleteRepository(gh, repository) ==
  LET repositoryFullName == getRepositoryFullName(repository)
      found == {i \in 1..Len(gh.repositories) :
                  gh.repositories[i].name = repositoryFullName}
  IN IF found = {}
       THEN [github |-> gh,
             out |-> PromiseReject(GitHubError(
               <<"No fake repository exists with the name ", repositoryFullName>>,
               <<>>))]
     ELSE LET deletedRepository == gh.repositories[FirstIndex(found)]
              remaining == RemoveFirst(gh.repositories, found)
              WithoutFork(r) ==
                IF deletedRepository.forkOf = <<r.id>>
                  THEN [r EXCEPT !.forks =
                          RemoveFirst(@, {i \in 1..Len(@) : @[i] = deletedRepository.id})]
                ELSE r
          IN [github |-> [gh EXCEPT !.repositories =
                            [i \in 1..Len(remaining) |-> WithoutFork(remaining[i])]],
              out |-> ResolvedVoid]

\* Repository full names "o/r" and "u/r", owners "o" and "u"
RepositoryNameInputs == {<<111, Slash, 114>>, <<117, Slash, 114>>}
OwnerInputs == {<<111>>, <<117>>}

RepositoryCreate ==
  \E r \in RepositoryNameInputs :
    /\ github.constructed < MaxRepositoryObjects
    /\ CompleteGitHub("createRepository", r, <<>>, FakeGitHub_createRepository(github, r))

RepositoryFork ==
  \E r \in RepositoryNameInputs, o \in OwnerInputs :
    /\ github.constructed < MaxRepositoryObjects
    /\ CompleteGitHub("forkRepository", r, <<o>>, FakeGitHub_forkRepository(github, r, o))

RepositoryDelete ==
  \E r \in RepositoryNameInputs :
    CompleteGitHub("deleteRepository", r, <<>>, FakeGitHub_deleteRepository(github, r))

NextRepositories ==
  \/ RepositoryCreate
  \/ RepositoryFork
  \/ RepositoryDelete

SpecRepositories == Init /\ [][NextRepositories]_vars

\* The repository object with the identity id is in this.repositories
Stored(gh, id) == \E i \in 1..Len(gh.repositories) : gh.repositories[i].id = id
StoredRepository(gh, id) ==
  gh.repositories[CHOOSE i \in 1..Len(gh.repositories) : gh.repositories[i].id = id]

----------------------------------------------------------------------------
(* C38 *)

\* C38: after any sequence of createRepository, forkRepository and
\* deleteRepository calls the full names of the repositories are pairwise
\* distinct, and creating an existing name fails and changes nothing; every
\* repository in the forks of a repository exists and has that repository as
\* its forkOf; every repository with a forkOf is in the forks of that parent,
\* and the parent still exists.
C38_RepositoriesAreConsistent ==
  [][ LET repositories == github'.repositories
      IN /\ \A i, j \in 1..Len(repositories) :
              repositories[i].name = repositories[j].name => i = j
         /\ (/\ last'.op \in {"createRepository", "forkRepository"}
             /\ \E i \in 1..Len(github.repositories) :
                  github.repositories[i].name =
                    (IF last'.op = "createRepository" THEN last'.target
                     ELSE GitHubRepository_getRepositoryFullName(
                            [organization |-> last'.option[1],
                             name |-> getGitHubRepository(last'.target).name])))
            => /\ last'.out.status = "rejected"
               /\ github' = github
         /\ \A i \in 1..Len(repositories) :
              /\ \A f \in 1..Len(repositories[i].forks) :
                   /\ Stored(github', repositories[i].forks[f])
                   /\ StoredRepository(github', repositories[i].forks[f]).forkOf
                        = <<repositories[i].id>>
              /\ repositories[i].forkOf # <<>>
                 => /\ Stored(github', repositories[i].forkOf[1])
                    /\ \E f \in 1..Len(StoredRepository(github',
                                                        repositories[i].forkOf[1]).forks) :
                         StoredRepository(github', repositories[i].forkOf[1]).forks[f]
                           = repositories[i].id
    ]_vars

----------------------------------------------------------------------------
(* FakeGitHub: pull requests closed and merged by concurrent calls         *)

\* The most closePullRequest and mergePullRequest calls in a run
MaxPullRequestCalls == 3

PullRequestOf(gh, ref) == gh.repositories[ref.repository].pullRequests[ref.pullRequest]

\* closePullRequest after its await; p is what getPullRequest settled with
FakeGitHub_closePullRequest(gh, p) ==
  IF p.status = "rejected" THEN [github |-> gh, out |-> p]
  ELSE [github |-> [gh EXCEPT !.repositories[p.value.repository]
                             .pullRequests[p.value.pullRequest].state = "closed"],
        out |-> ResolvedVoid]

\* mergePullRequest that does not look at the state
FakeGitHub_mergePullRequest_NoClosedCheck(gh, p) ==
  IF p.status = "rejected" THEN [github |-> gh, out |-> p]
  ELSE [github |-> [gh EXCEPT !.repositories[p.value.repository]
                             .pullRequests[p.value.pullRequest].state = "closed"],
        out |-> ResolvedVoid]

\* mergePullRequest after its await
FakeGitHub_mergePullRequest(gh, p) ==
  IF p.status = "rejected" THEN [github |-> gh, out |-> p]
  ELSE IF PullRequestOf(gh, p.value).state = "closed"
    THEN [github |-> gh,
          out |-> PromiseReject(GitHubError(
            <<"The pull request is already closed.",
              PullRequestOf(gh, p.value).number>>, <<>>))]
  ELSE [github |-> [gh EXCEPT !.repositories[p.value.repository]
                             .pullRequests[p.value.pullRequest].state = "closed"],
        out |-> ResolvedVoid]

\* closePullRequest or mergePullRequest is called: it runs up to its await.
\* read is the state of the pull request at the time of the call, <<>> when
\* there is no such pull request.
CallCloseOrMergePullRequest ==
  \E op \in {"closePullRequest", "mergePullRequest"},
     r \in RepositoryInputs, n \in PullRequestNumberInputs :
    /\ Len(tasks) < MaxPullRequestCalls
    /\ LET p == FakeGitHub_getPullRequest(github, r, n)
       IN tasks' = Append(tasks,
            [op |-> op, pc |-> "await", held |-> p,
             read |-> IF p.status = "rejected" THEN <<>>
                      ELSE <<PullRequestOf(github, p.value).state>>,
             out |-> ResolvedVoid])
    /\ UNCHANGED <<containers, objectFn, last, service, lastCloud, url, github,
                   exitCode>>

\* closePullRequest resumes after its await and runs to its end
ResumeClosePullRequest ==
  \E i \in 1..Len(tasks) :
    /\ tasks[i].op = "closePullRequest" /\ tasks[i].pc = "await"
    /\ LET r == FakeGitHub_closePullRequest(github, tasks[i].held)
       IN /\ github' = r.github
          /\ tasks' = [tasks EXCEPT ![i].pc = "done", ![i].out = r.out]
    /\ UNCHANGED <<containers, objectFn, last, service, lastCloud, url, exitCode>>

\* mergePullRequest resumes after its await and runs to its end
ResumeMergePullRequest ==
  \E i \in 1..Len(tasks) :
    /\ tasks[i].op = "mergePullRequest" /\ tasks[i].pc = "await"
    /\ LET r == FakeGitHub_mergePullRequest(github, tasks[i].held)
       IN /\ github' = r.github
          /\ tasks' = [tasks EXCEPT ![i].pc = "done", ![i].out = r.out]
    /\ UNCHANGED <<containers, objectFn, last, service, lastCloud, url, exitCode>>

NextPullRequest ==
  \/ GitHubCreateRepository
  \/ GitHubCreateCommit
  \/ GitHubCreateBranch
  \/ GitHubCreatePullRequest
  \/ CallCloseOrMergePullRequest
  \/ ResumeClosePullRequest
  \/ ResumeMergePullRequest

SpecPullRequest == Init /\ [][NextPullRequest]_vars

\* The call that a step resumed and finished
Finished(i, op) ==
  /\ i \in 1..Len(tasks)
  /\ tasks[i].op = op /\ tasks[i].pc = "await" /\ tasks'[i].pc = "done"

\* The merges of the pull request that have succeeded
SuccessfulMerges(ref) ==
  {i \in 1..Len(tasks) : /\ tasks[i].op = "mergePullRequest" /\ tasks[i].pc = "done"
                         /\ tasks[i].out.status = "resolved"
                         /\ tasks[i].held.value = ref}

----------------------------------------------------------------------------
(* C39 *)

\* C39: a closed pull request stays closed: once closePullRequest or a
\* successful mergePullRequest has run, the pull request is closed in every
\* later state; mergePullRequest on a closed pull request rejects and changes
\* nothing; and at most one merge of a pull request succeeds, also when two
\* merges are in flight at the same time.
C39_ClosedStaysClosed ==
  [][ /\ \A r \in 1..Len(github.repositories) :
           \A p \in 1..Len(github.repositories[r].pullRequests) :
             github.repositories[r].pullRequests[p].state = "closed"
             => PullRequestOf(github', [repository |-> r, pullRequest |-> p]).state
                  = "closed"
      /\ \A i \in 1..Len(tasks) :
           /\ (Finished(i, "closePullRequest") /\ tasks'[i].out.status = "resolved")
              => PullRequestOf(github', tasks[i].held.value).state = "closed"
           /\ (Finished(i, "mergePullRequest") /\ tasks'[i].out.status = "resolved")
              => /\ PullRequestOf(github', tasks[i].held.value).state = "closed"
                 /\ SuccessfulMerges(tasks[i].held.value)' = {i}
           /\ (/\ Finished(i, "mergePullRequest")
               /\ tasks[i].held.status = "resolved"
               /\ PullRequestOf(github, tasks[i].held.value).state = "closed")
              => /\ tasks'[i].out.status = "rejected"
                 /\ github' = github
    ]_vars

\* Two merges called while the pull request was open have both finished
C39_Witness ==
  \E i, j \in 1..Len(tasks) :
    /\ i # j
    /\ tasks[i].op = "mergePullRequest" /\ tasks[j].op = "mergePullRequest"
    /\ tasks[i].read = <<"open">> /\ tasks[j].read = <<"open">>
    /\ tasks[i].pc = "done" /\ tasks[j].pc = "done"
    /\ tasks[i].out.status = "resolved" /\ tasks[j].out.status = "rejected"

----------------------------------------------------------------------------
(* FakeGitHub: milestones, and the promise jobs of setPullRequestMilestone *)

\* The most milestones a repository gets
MaxMilestones == 1

GitHubMilestone(title) == [title |-> title, number |-> 0]

\* createMilestone
FakeGitHub_createMilestone(gh, repository, milestoneName) ==
  LET r == FakeGitHub_getRepository(gh, repository)
  IN IF r.status = "rejected" THEN [github |-> gh, out |-> r]
     ELSE [github |-> [gh EXCEPT !.repositories[r.value].milestones =
                         Append(@, GitHubMilestone(milestoneName))],
           out |-> Resolved("GitHubMilestone", GitHubMilestone(milestoneName))]

\* getMilestone after its await; fakeRepository is what getRepository settled
\* with inside getMilestones
FakeGitHub_getMilestone(gh, fakeRepository, milestone) ==
  IF fakeRepository.status = "rejected" THEN fakeRepository
  ELSE LET milestones == gh.repositories[fakeRepository.value].milestones
           milestoneMatch ==
             FirstIndex({i \in 1..Len(milestones) :
                           IF milestone.type = "string"
                             THEN milestones[i].title = milestone.value
                           ELSE milestones[i].number = milestone.value})
       IN IF milestoneMatch = 0
            THEN PromiseReject(GitHubError(
                   <<"No milestone found with the name or id number ",
                     milestone.value>>, <<>>))
          ELSE Resolved("GitHubMilestone", milestones[milestoneMatch])

\* A milestone given by name ("m1", "m2"), by number (0, 7) or as an object
MilestoneInputs ==
  { [type |-> "string", value |-> "m1"], [type |-> "string", value |-> "m2"],
    [type |-> "number", value |-> 0], [type |-> "number", value |-> 7],
    [type |-> "object", value |-> GitHubMilestone("m1")] }

GitHubCreateMilestone ==
  \E r \in RepositoryInputs :
    /\ \A i \in 1..Len(github.repositories) :
         Len(github.repositories[i].milestones) < MaxMilestones
    /\ CompleteGitHub("createMilestone", r, <<"m1">>,
                      FakeGitHub_createMilestone(github, r, "m1"))

\* A promise job: the callback or continuation to run, with the value its
\* promise settled with. tasks is the job queue, first in, first out.
Job(job, repository, pullRequest, milestone, settled) ==
  [job |-> job, repository |-> repository, pullRequest |-> pullRequest,
   milestone |-> milestone, settled |-> settled]

JobIs(job) == tasks # <<>> /\ Head(tasks).job = job

\* The jobs left after the first has run, followed by the jobs it queued
Queue(jobs) ==
  /\ tasks' = Tail(tasks) \o jobs
  /\ UNCHANGED <<containers, objectFn, service, lastCloud, url, exitCode>>

\* setPullRequestMilestone is called: getPullRequest is started and the
\* callback is attached to its promise
CallSetPullRequestMilestone ==
  \E r \in RepositoryInputs, n \in PullRequestNumberInputs, m \in MilestoneInputs :
    /\ tasks = <<>>
    /\ tasks' = <<Job("getPullRequest.then", r, n, m,
                      FakeGitHub_getPullRequest(github, r, n))>>
    /\ UNCHANGED <<containers, objectFn, last, service, lastCloud, url, github,
                   exitCode>>

\* The callback given to getPullRequest(...).then: it starts getMilestone, or
\* wraps the milestone object in a resolved promise, attaches
\* the inner callback and returns nothing, which resolves the promise that
\* setPullRequestMilestone returned; a rejected getPullRequest rejects it
RunGetPullRequestThen ==
  /\ JobIs("getPullRequest.then")
  /\ LET j == Head(tasks)
         Then(job, settled) ==
           Job(job, j.repository, j.pullRequest, j.milestone, settled)
     IN IF j.settled.status = "rejected"
          THEN Queue(<<Then("caller", j.settled)>>)
        ELSE IF j.milestone.type \in {"string", "number"}
          THEN Queue(<<Then("getMilestones.await",
                            FakeGitHub_getRepository(github, j.repository)),
                       Then("caller", ResolvedVoid)>>)
        ELSE Queue(<<Then("milestonePromise.then",
                          Resolved("GitHubMilestone", j.milestone.value)),
                     Then("caller", ResolvedVoid)>>)
  /\ UNCHANGED <<github, last>>

\* getMilestones resumes after `await this.getRepository(repository)` and
\* returns, which settles the promise getMilestone awaits
RunGetMilestonesAwait ==
  /\ JobIs("getMilestones.await")
  /\ LET j == Head(tasks)
     IN Queue(<<Job("getMilestone.await", j.repository, j.pullRequest, j.milestone,
                    j.settled)>>)
  /\ UNCHANGED <<github, last>>

\* getMilestone resumes after `await this.getMilestones(repository)` and
\* settles milestonePromise; nothing is attached to a rejection
RunGetMilestoneAwait ==
  /\ JobIs("getMilestone.await")
  /\ LET j == Head(tasks)
         milestonePromise == FakeGitHub_getMilestone(github, j.settled, j.milestone)
     IN IF milestonePromise.status = "rejected" THEN Queue(<<>>)
        ELSE Queue(<<Job("milestonePromise.then", j.repository, j.pullRequest,
                         j.milestone, milestonePromise)>>)
  /\ UNCHANGED <<github, last>>

\* The callback given to milestonePromise.then. pullRequest is the object the
\* outer callback received; pull requests are never removed, so its number
\* finds it again.
RunMilestonePromiseThen ==
  /\ JobIs("milestonePromise.then")
  /\ LET j == Head(tasks)
         p == FakeGitHub_getPullRequest(github, j.repository, j.pullRequest)
     IN github' = [github EXCEPT !.repositories[p.value.repository]
                                  .pullRequests[p.value.pullRequest].milestone =
                     <<j.settled.value>>]
  /\ Queue(<<>>)
  /\ UNCHANGED last

\* The caller of setPullRequestMilestone resumes with what the returned
\* promise settled with
RunCaller ==
  /\ JobIs("caller")
  /\ LET j == Head(tasks)
     IN last' = [op |-> "setPullRequestMilestone",
                 target |-> [repository |-> j.repository, pullRequest |-> j.pullRequest],
                 contents |-> <<>>, option |-> <<j.milestone>>, out |-> j.settled]
  /\ Queue(<<>>)
  /\ UNCHANGED github

NextMilestone ==
  \/ GitHubCreateRepository
  \/ GitHubCreateCommit
  \/ GitHubCreateBranch
  \/ GitHubCreatePullRequest
  \/ GitHubCreateMilestone
  \/ CallSetPullRequestMilestone
  \/ RunGetPullRequestThen
  \/ RunGetMilestonesAwait
  \/ RunGetMilestoneAwait
  \/ RunMilestonePromiseThen
  \/ RunCaller

SpecMilestone == Init /\ [][NextMilestone]_vars

\* The milestone a call asks for: the object, or the first milestone of the
\* repository with the name or number; <<>> when there is none
RequestedMilestone(gh, repository, milestone) ==
  IF milestone.type = "object" THEN <<milestone.value>>
  ELSE LET found == FakeGitHub_getMilestone(
                      gh, FakeGitHub_getRepository(gh, repository), milestone)
       IN IF found.status = "resolved" THEN <<found.value>> ELSE <<>>

----------------------------------------------------------------------------
(* C36 *)

\* C36: when the caller of setPullRequestMilestone sees the returned promise
\* resolved, the milestone of the pull request is the requested one; and when
\* the number or name matches no milestone of the repository the promise is
\* rejected, not resolved with the milestone left unset.
C36_MilestoneSetWhenResolved ==
  [][ (JobIs("caller") /\ last'.op = "setPullRequestMilestone")
      => LET call == Head(tasks)
             requested == RequestedMilestone(github, call.repository, call.milestone)
             p == FakeGitHub_getPullRequest(github, call.repository, call.pullRequest)
         IN /\ last'.out.status = "resolved"
               => /\ requested # <<>>
                  /\ PullRequestOf(github, p.value).milestone = requested
            /\ (p.status = "resolved" /\ requested = <<>>)
               => last'.out.status = "rejected"
    ]_vars

====
